---- MODULE Spec2Model ----
(***************************************************************************)
(* Session and protocol gateway of Zereker/game: the server's two          *)
(* registries, the rooms' roster / state / engine handle, and one          *)
(* execution unit per accepted connection (Server.HandleConnection).       *)
(* A step of a handler is one call of a Room or Server method that writes  *)
(* shared state under the object's lock, together with the sends that      *)
(* follow it (sends write nothing shared); handlers of different           *)
(* connections interleave between these steps.                             *)
(***************************************************************************)
EXTENDS Integers, Sequences, FiniteSets, TLC

\* ---------------------------------------------------------------- bounds
MaxPlayers == 2          \* Player objects ever allocated (LOGIN messages)
MaxRooms == 2            \* rooms ever created
MaxStartFailures == 1    \* engine instances whose Start() reports an error
MaxMembers == 3          \* members of the JSON object in a frame given to Decode

\* Accepted connections, one goroutine each (Server.HandleConnection).
Conns == {1, 2}
RoomIDs == 1..MaxRooms

\* Role lists a CREATE_ROOM request may carry (len(Roles) is the capacity);
\* a "roles" array without a string entry leaves the list empty.
RoleConfigs == { <<>>, <<"werewolf">>, <<"werewolf", "witch">> }

NoPlayer == 0            \* tempPlayerID == "" / player.RoomID == ""
NoRoom == 0
NoEngine == 0            \* r.Engine == nil

VARIABLES
    rooms,      \* s.rooms: sequence of Room records, indexed by room id
    players,    \* every Player object allocated, indexed by player id
    registry,   \* keys of s.players
    smu,        \* connection holding s.mu exclusively across steps, or 0
    conn,       \* per connection: position of its goroutine and its locals
    sent,       \* what the last step wrote: connection, request, messages
    watch,      \* the request kinds whose writes are recorded in sent
    roomCap,    \* the number of rooms the run may create
    announced,  \* history: the player ids whose LOGIN_SUCCESS was written
    wire,       \* a byte stream given to the Codec, and what the Codec made of it
    down,       \* the connections whose peer has stopped reading: writes time out
    snap,       \* an engine snapshot and roster, and the GAME_STATE payloads built from them
    lk          \* one room's mutex, and where each goroutine stands in its locking code

vars == <<rooms, players, registry, smu, conn, sent, watch, roomCap, announced, wire, down, snap, lk>>

\* ---------------------------------------------------------------- helpers
RECURSIVE SetToSeq(_)
SetToSeq(S) ==
    IF S = {} THEN <<>>
    ELSE LET m == CHOOSE x \in S : \A y \in S : x <= y
         IN  <<m>> \o SetToSeq(S \ {m})

\* One outbound envelope handed to a connection: its kind, the connection it
\* is written to, the recipient Player (0 when written to the raw socket),
\* and the payload fields the handlers fill in.
Msg(type, c, to, subj, text, list, flag) ==
    [type |-> type, conn |-> c, to |-> to, subj |-> subj,
     text |-> text, list |-> list, flag |-> flag, ok |-> c \notin down,
     role |-> "", camp |-> "", infos |-> {}]

\* The send of m whose blocking write returned an error (timeout, closed
\* socket): attempted, not written.
Failed(m) == [m EXCEPT !.ok = FALSE]

\* Player.SendMessageDirect(msg) on the Player object p.
ToPlayer(type, p, subj, text, list, flag) ==
    Msg(type, players[p].Conn, p, subj, text, list, flag)

\* A broadcast whose loop returns at the first send that fails.
BroadcastMessage_StopsAtError(room, type, subj, text, list, flag) ==
    LET to == SetToSeq(room.Players)
        all == [i \in 1..Len(to) |-> ToPlayer(type, to[i], subj, text, list, flag)]
        bad == {i \in 1..Len(to) : ~all[i].ok}
    IN  IF bad = {} THEN all
        ELSE SubSeq(all, 1, CHOOSE i \in bad : \A j \in bad : i <= j)

\* Room.BroadcastMessage: one send per roster member, under the read lock;
\* the error SendMessageDirect returns is dropped and the loop goes on.
BroadcastMessage(room, type, subj, text, list, flag) ==
    LET to == SetToSeq(room.Players)
    IN  [i \in 1..Len(to) |-> ToPlayer(type, to[i], subj, text, list, flag)]

NewPlayer(c) == [Conn |-> c, RoomID |-> NoRoom, IsReady |-> FALSE]

NewRoom(roles) ==
    [Players |-> {}, State |-> "WAITING", Roles |-> roles,
     Engine |-> NoEngine, EngineStarted |-> FALSE, EngineEnded |-> FALSE,
     Assigned |-> [id \in {} |-> ""]]

\* Room.GetPlayerList: the roster, read under the read lock.
GetPlayerList(room) == room.Players

\* Room.AddPlayer without its capacity check.
AddPlayerErr_NoCapacityCheck(room) ==
    IF room.State # "WAITING" THEN "room is not in waiting state" ELSE ""

\* Room.AddPlayer: the error it returns ("" for nil).
AddPlayerErr(room) ==
    IF room.State # "WAITING" THEN "room is not in waiting state"
    ELSE IF Cardinality(room.Players) >= Len(room.Roles) THEN "room is full"
    ELSE ""

\* Room.AddPlayer inserting before its checks.
AddPlayerRoster_BeforeChecks(room, p) == room.Players \cup {p}

\* Room.AddPlayer: the roster it leaves.
AddPlayerRoster(room, p) ==
    IF AddPlayerErr(room) = "" THEN room.Players \cup {p} ELSE room.Players

\* Room.SetPlayerReady: the error it returns ("" for nil).
SetPlayerReadyErr(room, p) ==
    IF p \notin room.Players THEN "player not in room" ELSE ""

\* Room.CanStart without the comparison of roster size and role slots.
CanStart_IgnoresRosterSize(room) ==
    \A p \in room.Players : players[p].IsReady

\* Room.CanStart.
CanStart(room) ==
    /\ Cardinality(room.Players) = Len(room.Roles)
    /\ \A p \in room.Players : players[p].IsReady

\* Room.Start without its state check.
StartErr_NoStateCheck(room) ==
    IF Cardinality(room.Players) # Len(room.Roles) THEN "need players" ELSE ""

\* Room.Start up to the engine's Start(): the error of the two guards
\* ("need players" stands for "need %d players, got %d").
StartErr(room) ==
    IF room.State # "WAITING" THEN "room is not in waiting state"
    ELSE IF Cardinality(room.Players) # Len(room.Roles) THEN "need players"
    ELSE ""

\* getRoleCamp.
GetRoleCamp(role) == IF role = "werewolf" THEN "EVIL" ELSE "GOOD"

\* Room.Start that draws a role slot for every member independently.
Assignments_WithRepeats(room) ==
    { [id \in room.Players |-> room.Roles[g[id]]] :
        g \in [room.Players -> 1..Len(room.Roles)] }

\* Room.Start, rand.Shuffle and the loop of Engine.AddPlayer over the roster
\* map: the ways the shuffled roles can fall on the roster.
Assignments(room) ==
    LET slots == { g \in [room.Players -> 1..Len(room.Roles)] :
                     \A a, b \in room.Players : a # b => g[a] # g[b] }
    IN  { [id \in room.Players |-> room.Roles[g[id]]] : g \in slots }

\* Room.Start: the room once the engine has been constructed, has been given
\* the players with the roles of assign, and its Start() has returned (ok:
\* without error).
StartRoom(room, assign, ok) ==
    [room EXCEPT !.Engine = @ + 1,
                 !.Assigned = assign,
                 !.EngineStarted = ok,
                 !.State = IF ok THEN "PLAYING" ELSE @]

\* Room.convertPlayersInfo: one PlayerInfo for each roster member the engine
\* knows; RoleType is filled only when includeRole (omitempty otherwise).
ConvertPlayersInfo(room, includeRole) ==
    { [ID |-> id, RoleType |-> IF includeRole THEN room.Assigned[id] ELSE ""] :
        id \in room.Players \cap DOMAIN room.Assigned }

\* msgs, each carrying the players list infos.
WithInfos(msgs, infos) == [i \in 1..Len(msgs) |-> [msgs[i] EXCEPT !.infos = infos]]

\* Room.notifyGameStarted that tells every recipient the first role of the
\* room's configuration.
NotifyGameStarted_SameRole(room) ==
    WithInfos([i \in 1..Len(SetToSeq(room.Players)) |->
                 [ToPlayer("GAME_STARTED", SetToSeq(room.Players)[i], NoPlayer, "", {}, TRUE)
                     EXCEPT !.role = room.Roles[1], !.camp = GetRoleCamp(room.Roles[1])]],
              ConvertPlayersInfo(room, FALSE))

\* Room.notifyGameStarted: to every roster member the engine knows, a
\* GAME_STARTED with the member's own role and camp and the role-free list.
NotifyGameStarted(room) ==
    LET members == SetToSeq(room.Players \cap DOMAIN room.Assigned)
    IN  WithInfos([i \in 1..Len(members) |->
                     [ToPlayer("GAME_STARTED", members[i], NoPlayer, "", {}, TRUE)
                         EXCEPT !.role = room.Assigned[members[i]],
                                !.camp = GetRoleCamp(room.Assigned[members[i]])]],
                  ConvertPlayersInfo(room, FALSE))

\* Room.SendGameState that converts the players with includeRole set.
SendGameState_WithRoles(room) ==
    WithInfos(BroadcastMessage(room, "GAME_STATE", NoPlayer, "", {}, FALSE),
              ConvertPlayersInfo(room, TRUE))

\* Room.SendGameState: the one message built from convertPlayersInfo(false)
\* is handed to BroadcastMessage.
SendGameState(room) ==
    WithInfos(BroadcastMessage(room, "GAME_STATE", NoPlayer, "", {}, FALSE),
              ConvertPlayersInfo(room, FALSE))

\* Room.handleGameEnded reopening the room for another game.
GameEnded_Reopen(room) == [room EXCEPT !.State = "WAITING", !.EngineEnded = TRUE]

\* Room.handleGameEnded: the room after the terminal event.
GameEnded(room) == [room EXCEPT !.State = "FINISHED", !.EngineEnded = TRUE]

\* Room.RemovePlayer: the roster it leaves.
RemoveFromRoster(room, p) == room.Players \ {p}

MessageKinds ==
    {"LOGIN", "CREATE_ROOM", "JOIN_ROOM", "READY", "PERFORM_ACTION", "END_PHASE", "UNKNOWN"}

\* Locals of a connection's goroutine between two messages.
IdleConn(pid) == [pc |-> "idle", tempPlayerID |-> pid, room |-> NoRoom]

\* HandleConnection has returned; its locals are gone.
Closed == [pc |-> "closed", tempPlayerID |-> NoPlayer, room |-> NoRoom]

\* A handler's exchange with the engine: the skill the request names, the
\* skills the engine allows the player, and whether the handler passed the
\* skill to Engine.SubmitSkillUse.  Here: no exchange.
NoInput == [skill |-> "", allowed |-> {}, submitted |-> FALSE, phase |-> "", alive |-> {}]

Nothing == [conn |-> 0, req |-> "", arg |-> 0, in |-> NoInput, msgs |-> <<>>]

\* The record of the last step has been taken: every step of the server
\* starts from an empty record.
Quiet == sent = Nothing

\* The step of connection c handling a req message with input in sent msgs.
SentIn(c, req, arg, in, msgs) ==
    sent' = IF req \in watch
            THEN [conn |-> c, req |-> req, arg |-> arg, in |-> in, msgs |-> msgs]
            ELSE Nothing

\* The step of connection c handling a req message sent msgs.
Sent(c, req, arg, msgs) == SentIn(c, req, arg, NoInput, msgs)

\* The ERROR reply of HandleConnection for a handler error.
ErrorReply(c, text) ==
    LET p == conn[c].tempPlayerID IN
    IF p \in registry THEN <<ToPlayer("ERROR", p, NoPlayer, text, {}, FALSE)>> ELSE <<>>

\* The handler returns to the read loop.
Return(c) == conn' = [conn EXCEPT ![c] = IdleConn(conn[c].tempPlayerID)]

\* The handler returns an error: HandleConnection answers with ERROR.
FailIn(c, req, arg, in, msgs, text) ==
    /\ Return(c)
    /\ SentIn(c, req, arg, in, msgs \o ErrorReply(c, text))

Fail(c, req, arg, msgs, text) == FailIn(c, req, arg, NoInput, msgs, text)

\* ---------------------------------------------------------------- Init
\* The server after NewServer, every connection accepted and not logged in;
\* W is the set of request kinds under observation, cap the number of rooms
\* the run may create.
\* No stream, no Decode result, a Codec at rest.
NoResult == [err |-> "", read |-> 0, data |-> <<>>, msg |-> <<>>]

NoStream == [hdr |-> <<>>, body |-> <<>>, pad |-> 0]

NoWire == [phase |-> "off", stream |-> NoStream, res |-> NoResult, out |-> NoStream]

InitServer(W, cap) ==
    /\ rooms = <<>>
    /\ players = <<>>
    /\ registry = {}
    /\ smu = 0
    /\ conn = [c \in Conns |-> IdleConn(NoPlayer)]
    /\ sent = Nothing
    /\ watch = W
    /\ roomCap = cap
    /\ announced = {}
    /\ down = {}

\* A server whose Codec is not under examination.
\* No snapshot under observation.
NoSnap == [roster |-> {}, known |-> {}, alive |-> {}, phase |-> "", payloads |-> <<>>]

\* No access in progress.
NoAccess == [by |-> 0, field |-> "", kind |-> ""]

\* No goroutine under observation, the mutex free.
NoLocks == [w |-> 0, r |-> {}, run |-> [c \in Conns |-> ""], pc |-> [c \in Conns |-> 1],
            acc |-> NoAccess]

InitWatching(W, cap) ==
    InitServer(W, cap) /\ wire = NoWire /\ snap = NoSnap /\ lk = NoLocks

\* Nothing is recorded.
Init == InitWatching({}, MaxRooms)

\* Every write is recorded, on a server that hosts a single room.
InitSent == InitWatching(MessageKinds \cup {"CLOSE"}, 1)

\* ------------------------------------------------- Server.HandleConnection
\* The read loop has a message of kind `kind` for the callback, which picks
\* its branch from msg.Type and tempPlayerID.
Dispatch(c, kind) ==
    /\ conn[c].pc = "idle"
    /\ kind # "LOGIN" => conn[c].tempPlayerID # NoPlayer

\* msg.Type == MsgLogin: decode the payload, allocate a Player, set
\* tempPlayerID and register the player (Server.AddPlayer).  An error the
\* callback returns goes to the socket, which closes the connection.
Login(c) ==
    /\ Quiet
    /\ Dispatch(c, "LOGIN")
    /\ \/ \* msg.UnmarshalData(&loginData) fails: the error goes to the socket
          /\ conn' = [conn EXCEPT ![c].pc = "closing"]
          /\ Sent(c, "LOGIN", 0, <<>>)
          /\ UNCHANGED <<players, registry>>
       \/ /\ smu = 0
          /\ Len(players) < MaxPlayers
          /\ LET id == Len(players) + 1 IN
             /\ players' = Append(players, NewPlayer(c))
             /\ registry' = registry \cup {id}
             /\ conn' = [conn EXCEPT ![c] = [IdleConn(id) EXCEPT !.pc = "loginWrite"]]
          /\ sent' = Nothing
    /\ UNCHANGED <<rooms, smu>>
    /\ UNCHANGED <<watch, roomCap, announced, wire, down, snap, lk>>

\* socketConn.WriteDirect(respMsg) whose error is dropped.
LoginWrite_ErrorDropped(c) ==
    /\ Quiet
    /\ conn[c].pc = "loginWrite"
    /\ LET id == conn[c].tempPlayerID
           m == Msg("LOGIN_SUCCESS", c, NoPlayer, id, "", {}, TRUE)
       IN  \/ /\ Return(c)
              /\ Sent(c, "LOGIN", 0, <<m>>)
              /\ announced' = announced \cup {id}
           \/ /\ Return(c)
              /\ Sent(c, "LOGIN", 0, <<Failed(m)>>)
              /\ UNCHANGED announced
    /\ UNCHANGED <<rooms, players, registry, smu>>
    /\ UNCHANGED <<watch, roomCap, wire, down, snap, lk>>

\* return socketConn.WriteDirect(respMsg): LOGIN_SUCCESS is written, or the
\* write fails and its error goes to the socket.
LoginWrite(c) ==
    /\ Quiet
    /\ conn[c].pc = "loginWrite"
    /\ LET id == conn[c].tempPlayerID
           m == Msg("LOGIN_SUCCESS", c, NoPlayer, id, "", {}, TRUE)
       IN  \/ /\ c \notin down
              /\ Return(c)
              /\ Sent(c, "LOGIN", 0, <<m>>)
              /\ announced' = announced \cup {id}
           \/ /\ conn' = [conn EXCEPT ![c].pc = "closing"]
              /\ Sent(c, "LOGIN", 0, <<Failed(m)>>)
              /\ UNCHANGED announced
    /\ UNCHANGED <<rooms, players, registry, smu>>
    /\ UNCHANGED <<watch, roomCap, wire, down, snap, lk>>

\* The callback returning an error for a message before login.
PreLogin_Disconnects(c) ==
    /\ Quiet
    /\ conn[c].pc = "idle"
    /\ conn[c].tempPlayerID = NoPlayer
    /\ \E kind \in MessageKinds \ {"LOGIN"} : Sent(c, kind, 0, <<>>)
    /\ conn' = [conn EXCEPT ![c].pc = "closing"]
    /\ UNCHANGED <<rooms, players, registry, smu>>
    /\ UNCHANGED <<watch, roomCap, announced, wire, down, snap, lk>>

\* tempPlayerID == "": every other kind is answered "please login first".
PreLogin(c) ==
    /\ Quiet
    /\ conn[c].pc = "idle"
    /\ conn[c].tempPlayerID = NoPlayer
    /\ \E kind \in MessageKinds \ {"LOGIN"} :
          Sent(c, kind, 0, <<Msg("ERROR", c, NoPlayer, NoPlayer, "please login first", {}, FALSE)>>)
    /\ UNCHANGED <<rooms, players, registry, smu, conn>>
    /\ UNCHANGED <<watch, roomCap, announced, wire, down, snap, lk>>

\* A default branch that drops the message and returns nil.
Unknown_Ignored(c) ==
    /\ Quiet
    /\ Dispatch(c, "UNKNOWN")
    /\ Return(c)
    /\ Sent(c, "UNKNOWN", 0, <<>>)
    /\ UNCHANGED <<rooms, players, registry, smu>>
    /\ UNCHANGED <<watch, roomCap, announced, wire, down, snap, lk>>

\* MessageHandler.HandleMessage, default branch.
Unknown(c) ==
    /\ Quiet
    /\ Dispatch(c, "UNKNOWN")
    /\ Fail(c, "UNKNOWN", 0, <<>>, "unknown message type")
    /\ UNCHANGED <<rooms, players, registry, smu>>
    /\ UNCHANGED <<watch, roomCap, announced, wire, down, snap, lk>>

\* ------------------------------------------- MessageHandler.handleCreateRoom
\* Either the payload fails validation before the server is touched, or
\* Server.CreateRoom inserts NewRoom(roomName, roles) into s.rooms.
CreateRoom(c) ==
    /\ Quiet
    /\ Dispatch(c, "CREATE_ROOM")
    /\ \/ /\ Fail(c, "CREATE_ROOM", 0, <<>>, "roomName must be 1-50 characters")
          /\ UNCHANGED rooms
       \/ /\ smu = 0
          /\ Len(rooms) < roomCap
          /\ \E roles \in RoleConfigs : rooms' = Append(rooms, NewRoom(roles))
          /\ conn' = [conn EXCEPT ![c].pc = "createAdd", ![c].room = Len(rooms) + 1]
          /\ sent' = Nothing
    /\ UNCHANGED <<players, registry, smu>>
    /\ UNCHANGED <<watch, roomCap, announced, wire, down, snap, lk>>

\* room.AddPlayer followed by the notifications, then the player's reply.
AddPlayer_NotifyFirst(c, req, r, reply, notify) ==
    LET p == conn[c].tempPlayerID
        e == AddPlayerErr(rooms[r])
    IN  /\ rooms' = [rooms EXCEPT ![r].Players = AddPlayerRoster(rooms[r], p)]
        /\ players' = [players EXCEPT ![p].RoomID = IF e = "" THEN r ELSE @]
        /\ IF e # ""
           THEN Fail(c, req, r, <<>>, e)
           ELSE Return(c) /\ Sent(c, req, r, notify \o reply)

\* room.AddPlayer(player) on room r by the handler of req, followed by the
\* handler's sends: reply to the player itself (its send error is returned),
\* then notify to the others.
AddPlayer(c, req, r, reply, notify) ==
    LET p == conn[c].tempPlayerID
        e == AddPlayerErr(rooms[r])
    IN  /\ rooms' = [rooms EXCEPT ![r].Players = AddPlayerRoster(rooms[r], p)]
        /\ players' = [players EXCEPT ![p].RoomID = IF e = "" THEN r ELSE @]
        /\ IF e # ""
           THEN Fail(c, req, r, <<>>, e)
           ELSE \/ c \notin down /\ Return(c) /\ Sent(c, req, r, reply \o notify)
                \/ \E n \in 0..(Len(reply) - 1) :
                      Fail(c, req, r, SubSeq(reply, 1, n) \o <<Failed(reply[n + 1])>>,
                           "write error")

\* The creator joins its room and is sent ROOM_CREATED, then ROOM_JOINED
\* with room.GetPlayerList().
CreateAdd(c) ==
    /\ Quiet
    /\ conn[c].pc = "createAdd"
    /\ LET p == conn[c].tempPlayerID
           r == conn[c].room
           list == GetPlayerList([rooms[r] EXCEPT !.Players = AddPlayerRoster(rooms[r], p)])
       IN  AddPlayer(c, "CREATE_ROOM", r,
                     << ToPlayer("ROOM_CREATED", p, NoPlayer, "", {}, TRUE),
                        ToPlayer("ROOM_JOINED", p, NoPlayer, "", list, TRUE) >>,
                     <<>>)
    /\ UNCHANGED <<registry, smu>>
    /\ UNCHANGED <<watch, roomCap, announced, wire, down, snap, lk>>

\* --------------------------------------------- MessageHandler.handleJoinRoom
\* Payload decoding, Server.GetRoom(data.RoomID), room.AddPlayer(player),
\* ROOM_JOINED to the player, PLAYER_JOINED to every other entry of
\* room.Players.
JoinRoom(c) ==
    /\ Quiet
    /\ Dispatch(c, "JOIN_ROOM")
    /\ \/ /\ Fail(c, "JOIN_ROOM", 0, <<>>, "unmarshal data")
          /\ UNCHANGED <<rooms, players>>
       \/ \E rid \in RoomIDs :
             IF rid > Len(rooms)
             THEN /\ Fail(c, "JOIN_ROOM", rid, <<>>, "room not found")
                  /\ UNCHANGED <<rooms, players>>
             ELSE LET p == conn[c].tempPlayerID
                      roster == AddPlayerRoster(rooms[rid], p)
                      list == GetPlayerList([rooms[rid] EXCEPT !.Players = roster])
                      others == SetToSeq(roster \ {p})
                  IN  AddPlayer(c, "JOIN_ROOM", rid,
                                <<ToPlayer("ROOM_JOINED", p, NoPlayer, "", list, TRUE)>>,
                                [i \in 1..Len(others) |->
                                    ToPlayer("PLAYER_JOINED", others[i], p, "", {},
                                             players[p].IsReady)])
    /\ UNCHANGED <<registry, smu>>
    /\ UNCHANGED <<watch, roomCap, announced, wire, down, snap, lk>>

\* ------------------------------------------------ MessageHandler.handleReady
\* Lookups, room.SetPlayerReady(playerID, !player.IsReady) and
\* room.BroadcastMessage(readyMsg).
Ready(c) ==
    /\ Quiet
    /\ Dispatch(c, "READY")
    /\ LET p == conn[c].tempPlayerID
           r == players[p].RoomID
           e == IF p \notin registry THEN "player not found"
                ELSE IF r = NoRoom THEN "player not in room"
                ELSE IF r > Len(rooms) THEN "room not found"
                ELSE SetPlayerReadyErr(rooms[r], p)
           newReadyState == ~players[p].IsReady
       IN  IF e # ""
           THEN Fail(c, "READY", 0, <<>>, e) /\ UNCHANGED players
           ELSE /\ players' = [players EXCEPT ![p].IsReady = newReadyState]
                /\ conn' = [conn EXCEPT ![c].pc = "readyCanStart", ![c].room = r]
                /\ Sent(c, "READY", r,
                        BroadcastMessage(rooms[r], "PLAYER_READY", p, "", {}, newReadyState))
    /\ UNCHANGED <<rooms, registry, smu>>
    /\ UNCHANGED <<watch, roomCap, announced, wire, down, snap, lk>>

\* if room.CanStart() { ... }
ReadyCanStart(c) ==
    /\ Quiet
    /\ conn[c].pc = "readyCanStart"
    /\ IF CanStart(rooms[conn[c].room])
       THEN conn' = [conn EXCEPT ![c].pc = "readyStart"]
       ELSE Return(c)
    /\ sent' = Nothing
    /\ UNCHANGED <<rooms, players, registry, smu>>
    /\ UNCHANGED <<watch, roomCap, announced, wire, down, snap, lk>>

\* Room.Start under the room's exclusive lock, and what handleReady does
\* with its error: "room is not in waiting state" is swallowed, any other
\* error is returned.  notifyGameStarted runs inside Start.
Start(c) ==
    /\ Quiet
    /\ conn[c].pc = "readyStart"
    /\ LET r == conn[c].room
           room == rooms[r]
           e == StartErr(room)
       IN  IF e = "room is not in waiting state"
           THEN Return(c) /\ Sent(c, "READY", r, <<>>) /\ UNCHANGED rooms
           ELSE IF e # ""
           THEN Fail(c, "READY", r, <<>>, e) /\ UNCHANGED rooms
           ELSE \E assign \in Assignments(room) :
                \/ \* r.Engine.Start() returns an error
                   /\ room.Engine < MaxStartFailures
                   /\ rooms' = [rooms EXCEPT ![r] = StartRoom(room, assign, FALSE)]
                   /\ Fail(c, "READY", r, <<>>, "start engine")
                \/ \* r.Engine.Start() succeeds
                   /\ rooms' = [rooms EXCEPT ![r] = StartRoom(room, assign, TRUE)]
                   /\ Return(c)
                   /\ Sent(c, "READY", r, NotifyGameStarted(StartRoom(room, assign, TRUE)))
    /\ UNCHANGED <<players, registry, smu>>
    /\ UNCHANGED <<watch, roomCap, announced, wire, down, snap, lk>>

\* --------------------------------------- MessageHandler.handlePerformAction
\* pb.SkillType values a request may name.
SkillTypes == {"KILL", "CHECK"}

\* Answers of room.Engine.GetAllowedSkills(playerID): the phase allows the
\* player nothing, or one skill.
AllowedSkills == {{}, {"KILL"}}

\* The loop over allowedSkills that always finds the skill.
SkillAllowed_Always(skill, allowed) == TRUE

\* The loop over room.Engine.GetAllowedSkills(playerID).
SkillAllowed(skill, allowed) == skill \in allowed

\* Payload decoding and lookups; the engine names the skills it allows the
\* player; a skill outside them is answered ACTION_RESULT success=false and
\* returned as an error; otherwise Engine.SubmitSkillUse decides, then
\* ACTION_RESULT and room.SendGameState().  The result of writing
\* ACTION_RESULT is ignored.
PerformAction(c) ==
    /\ Quiet
    /\ Dispatch(c, "PERFORM_ACTION")
    /\ LET p == conn[c].tempPlayerID
           r == players[p].RoomID
           req == "PERFORM_ACTION"
           Result(success, written) ==
               LET m == ToPlayer("ACTION_RESULT", p, NoPlayer, "", {}, success)
               IN  <<IF written THEN m ELSE Failed(m)>>
           State == SendGameState(rooms[r])
       IN  \/ Fail(c, req, 0, <<>>, "unmarshal data") /\ UNCHANGED rooms
           \/ IF p \notin registry
              THEN Fail(c, req, 0, <<>>, "player not found") /\ UNCHANGED rooms
              ELSE IF r = NoRoom \/ r > Len(rooms)
              THEN Fail(c, req, 0, <<>>, "room not found") /\ UNCHANGED rooms
              ELSE IF rooms[r].Engine = NoEngine
              THEN Fail(c, req, r, <<>>, "game not started") /\ UNCHANGED rooms
              ELSE \/ Fail(c, req, r, <<>>, "missing skillType field") /\ UNCHANGED rooms
                   \/ \E skill \in SkillTypes, allowed \in AllowedSkills,
                         written \in BOOLEAN :
                         LET in == [NoInput EXCEPT !.skill = skill, !.allowed = allowed,
                                       !.submitted = SkillAllowed(skill, allowed)] IN
                         IF ~SkillAllowed(skill, allowed)
                         THEN /\ FailIn(c, req, r, in, Result(FALSE, written),
                                        "skill not allowed in current phase")
                              /\ UNCHANGED rooms
                         ELSE /\ UNCHANGED rooms
                              /\ \/ \* Engine.SubmitSkillUse returns an error
                                    FailIn(c, req, r, in, Result(FALSE, written) \o State,
                                           "submit skill")
                                 \/ \* Engine.SubmitSkillUse accepts the skill
                                    /\ rooms[r].EngineStarted /\ ~rooms[r].EngineEnded
                                    /\ Return(c)
                                    /\ SentIn(c, req, r, in, Result(TRUE, written) \o State)
    /\ UNCHANGED <<players, registry, smu>>
    /\ UNCHANGED <<watch, roomCap, announced, wire, down, snap, lk>>

\* ------------------------------------------- MessageHandler.handleEndPhase
EngineEvents == {"NONE", "KILL", "GAME_ENDED"}

\* Room.handleEvent: the room after the event and the broadcasts made for it
\* (GAME_ENDED or GAME_EVENT, then SendGameState).
HandleEvent(room, ev) ==
    LET after == IF ev = "GAME_ENDED" THEN GameEnded(room) ELSE room
    IN  [room |-> after,
         msgs |-> IF ev = "NONE" THEN <<>>
                  ELSE WithInfos(BroadcastMessage(after, IF ev = "GAME_ENDED" THEN "GAME_ENDED"
                                                         ELSE "GAME_EVENT",
                                                  NoPlayer, "", after.Players, TRUE),
                                 IF ev = "GAME_ENDED" THEN ConvertPlayersInfo(after, TRUE)
                                 ELSE {})
                       \o SendGameState(after)]

\* The phase Engine.GetCurrentPhase() reports after EndPhase: the end phase
\* once the terminal event was emitted, else the witch's night or another.
NewPhases(ev) == IF ev = "GAME_ENDED" THEN {"END"} ELSE {"NIGHT_WITCH", "DAY"}

\* The players the engine holds with the witch role.
Witches(room) == {pid \in DOMAIN room.Assigned : room.Assigned[pid] = "witch"}

\* The alive flags Engine.GetState() may report: every player of the game
\* alive, or all but the witches.
AliveSets(room) == {DOMAIN room.Assigned, DOMAIN room.Assigned \ Witches(room)}

\* A selection that tells every witch, dead or alive.
WitchesToTell_DeadToo(room, alive) ==
    {pid \in DOMAIN room.Assigned : room.Assigned[pid] = "witch"}

\* for pid, ps := range state.Players { if ps.Role == WITCH && ps.Alive ... }
WitchesToTell(room, alive) ==
    {pid \in DOMAIN room.Assigned : room.Assigned[pid] = "witch" /\ pid \in alive}

\* Room.SendWitchKillTarget(pid): the kill target, read from the engine, is
\* unicast as ROLE_INFO to the roster member pid.
SendWitchKillTarget(pid) ==
    ToPlayer("ROLE_INFO", pid, NoPlayer, "witch_kill_target", {}, TRUE)

\* Room.SendAllowedSkills(pid): the engine's allowed skills of pid are
\* unicast as ALLOWED_SKILLS to the roster member pid.
SendAllowedSkills(pid) ==
    ToPlayer("ALLOWED_SKILLS", pid, NoPlayer, "", {}, TRUE)

\* Phase-entry unicasts that send the allowed skills to every roster member.
PhaseEntry_SkillsToAll(room, phase, alive) ==
    LET tell == SetToSeq(IF phase = "NIGHT_WITCH"
                         THEN WitchesToTell(room, alive) \cap room.Players ELSE {})
        live == SetToSeq(room.Players)
    IN  [i \in 1..Len(tell) |-> SendWitchKillTarget(tell[i])]
        \o [i \in 1..Len(live) |-> SendAllowedSkills(live[i])]

\* The phase-entry unicasts of handleEndPhase: the witches' kill target on
\* entering the witch's night, then the allowed skills of the alive; a
\* player no longer on the roster has no Player object to send to.
PhaseEntry(room, phase, alive) ==
    LET tell == SetToSeq(IF phase = "NIGHT_WITCH"
                         THEN WitchesToTell(room, alive) \cap room.Players ELSE {})
        live == SetToSeq(alive \cap room.Players)
    IN  [i \in 1..Len(tell) |-> SendWitchKillTarget(tell[i])]
        \o [i \in 1..Len(live) |-> SendAllowedSkills(live[i])]

\* handleEndPhase that returns after the phase-entry unicasts.
EndPhase_NoClosingState(c) ==
    /\ Quiet
    /\ Dispatch(c, "END_PHASE")
    /\ LET p == conn[c].tempPlayerID
           r == players[p].RoomID
           req == "END_PHASE"
       IN  IF p \notin registry
           THEN Fail(c, req, 0, <<>>, "player not found") /\ UNCHANGED rooms
           ELSE IF r = NoRoom \/ r > Len(rooms)
           THEN Fail(c, req, 0, <<>>, "room not found") /\ UNCHANGED rooms
           ELSE IF rooms[r].Engine = NoEngine
           THEN Fail(c, req, r, <<>>, "game not started") /\ UNCHANGED rooms
           ELSE IF ~rooms[r].EngineStarted \/ rooms[r].EngineEnded
           THEN Fail(c, req, r, <<>>, "end phase") /\ UNCHANGED rooms
           ELSE \E ev \in EngineEvents :
                \E phase \in NewPhases(ev), alive \in AliveSets(rooms[r]) :
                   LET h == HandleEvent(rooms[r], ev)
                       in == [NoInput EXCEPT !.phase = phase, !.alive = alive]
                   IN  /\ rooms' = [rooms EXCEPT ![r] = h.room]
                       /\ Return(c)
                       /\ SentIn(c, req, r, in,
                                 h.msgs
                                 \o BroadcastMessage(h.room, "PHASE_CHANGED", NoPlayer, phase, {}, TRUE)
                                 \o PhaseEntry(h.room, phase, alive))
    /\ UNCHANGED <<players, registry, smu>>
    /\ UNCHANGED <<watch, roomCap, announced, wire, down, snap, lk>>

\* Lookups and room.Engine.EndPhase(): a started, unfinished engine resolves
\* the phase and may report one event to the callback Room.subscribeEvents
\* registered; then PHASE_CHANGED, the phase-entry unicasts and the closing
\* SendGameState.
EndPhase(c) ==
    /\ Quiet
    /\ Dispatch(c, "END_PHASE")
    /\ LET p == conn[c].tempPlayerID
           r == players[p].RoomID
           req == "END_PHASE"
       IN  IF p \notin registry
           THEN Fail(c, req, 0, <<>>, "player not found") /\ UNCHANGED rooms
           ELSE IF r = NoRoom \/ r > Len(rooms)
           THEN Fail(c, req, 0, <<>>, "room not found") /\ UNCHANGED rooms
           ELSE IF rooms[r].Engine = NoEngine
           THEN Fail(c, req, r, <<>>, "game not started") /\ UNCHANGED rooms
           ELSE IF ~rooms[r].EngineStarted \/ rooms[r].EngineEnded
           THEN Fail(c, req, r, <<>>, "end phase") /\ UNCHANGED rooms
           ELSE \E ev \in EngineEvents :
                \E phase \in NewPhases(ev), alive \in AliveSets(rooms[r]) :
                   LET h == HandleEvent(rooms[r], ev)
                       in == [NoInput EXCEPT !.phase = phase, !.alive = alive]
                   IN  /\ rooms' = [rooms EXCEPT ![r] = h.room]
                       /\ Return(c)
                       /\ SentIn(c, req, r, in,
                                 h.msgs
                                 \o BroadcastMessage(h.room, "PHASE_CHANGED", NoPlayer, phase, {}, TRUE)
                                 \o PhaseEntry(h.room, phase, alive)
                                 \o SendGameState(h.room))
    /\ UNCHANGED <<players, registry, smu>>
    /\ UNCHANGED <<watch, roomCap, announced, wire, down, snap, lk>>

\* ------------------------------------------------------------- teardown
\* socketConn.Run returns (peer close or transport error).
Close(c) ==
    /\ Quiet
    /\ conn[c].pc = "idle"
    /\ conn' = [conn EXCEPT ![c].pc = "closing"]
    /\ sent' = Nothing
    /\ UNCHANGED <<rooms, players, registry, smu>>
    /\ UNCHANGED <<watch, roomCap, announced, wire, down, snap, lk>>

\* Server.RemovePlayer(tempPlayerID) up to room.RemovePlayer: takes s.mu and
\* keeps it while the room is notified.
RemovePlayer(c) ==
    /\ Quiet
    /\ conn[c].pc = "closing"
    /\ LET p == conn[c].tempPlayerID IN
       IF p = NoPlayer
       THEN /\ conn' = [conn EXCEPT ![c] = Closed]
            /\ UNCHANGED <<rooms, registry, smu>>
       ELSE /\ smu = 0
            /\ IF p \notin registry
               THEN /\ conn' = [conn EXCEPT ![c] = Closed]
                    /\ UNCHANGED <<rooms, registry, smu>>
               ELSE IF players[p].RoomID # NoRoom /\ players[p].RoomID <= Len(rooms)
               THEN /\ rooms' = [rooms EXCEPT ![players[p].RoomID].Players =
                                    RemoveFromRoster(rooms[players[p].RoomID], p)]
                    /\ smu' = c
                    /\ conn' = [conn EXCEPT ![c].pc = "playerLeft",
                                            ![c].room = players[p].RoomID]
                    /\ UNCHANGED registry
               ELSE /\ registry' = registry \ {p}
                    /\ conn' = [conn EXCEPT ![c] = Closed]
                    /\ UNCHANGED <<rooms, smu>>
    /\ sent' = Nothing
    /\ UNCHANGED players
    /\ UNCHANGED <<watch, roomCap, announced, wire, down, snap, lk>>

\* room.BroadcastMessage(leftMsg); delete(s.players, playerID); s.mu.Unlock().
PlayerLeft(c) ==
    /\ Quiet
    /\ conn[c].pc = "playerLeft"
    /\ smu = c
    /\ Sent(c, "CLOSE", conn[c].room,
            BroadcastMessage(rooms[conn[c].room], "PLAYER_LEFT",
                             conn[c].tempPlayerID, "", {}, TRUE))
    /\ registry' = registry \ {conn[c].tempPlayerID}
    /\ smu' = 0
    /\ conn' = [conn EXCEPT ![c] = Closed]
    /\ UNCHANGED <<rooms, players>>
    /\ UNCHANGED <<watch, roomCap, announced, wire, down, snap, lk>>

Next ==
    \E c \in Conns :
       \/ Login(c) \/ LoginWrite(c) \/ PreLogin(c) \/ Unknown(c)
       \/ CreateRoom(c) \/ CreateAdd(c) \/ JoinRoom(c)
       \/ Ready(c) \/ ReadyCanStart(c) \/ Start(c)
       \/ PerformAction(c) \/ EndPhase(c)
       \/ Close(c) \/ RemovePlayer(c) \/ PlayerLeft(c)

Spec == Init /\ [][Next]_vars

\* Server.CreateRoom with a NewRoom whose ID, the first 8 hex digits of a
\* random UUID, is the ID of a room r already in s.rooms: the map entry is
\* overwritten with the new room, which the handler then adds its creator to.
CreateRoomSameID(c) ==
    /\ Quiet
    /\ Dispatch(c, "CREATE_ROOM")
    /\ smu = 0
    /\ \E r \in 1..Len(rooms), roles \in RoleConfigs :
          /\ rooms' = [rooms EXCEPT ![r] = NewRoom(roles)]
          /\ conn' = [conn EXCEPT ![c].pc = "createAdd", ![c].room = r]
    /\ sent' = Nothing
    /\ UNCHANGED <<players, registry, smu>>
    /\ UNCHANGED <<watch, roomCap, announced, wire, down, snap, lk>>

\* The server's steps, room IDs that repeat included.
NextIDs == Next \/ \E c \in Conns : CreateRoomSameID(c)

\* The runs in which one room ID is in use and may be drawn again.
SpecIDs == InitWatching({}, 1) /\ [][NextIDs]_vars

\* The record of a step is taken away before the next step is made; the
\* server's own state is left as it is.
Collect ==
    /\ sent # Nothing
    /\ sent' = Nothing
    /\ UNCHANGED <<rooms, players, registry, smu, conn, watch, roomCap, announced, wire, down, snap, lk>>

\* The server's steps, each one's record taken before the next.
NextSent == Next \/ Collect

\* The peer of connection c, a member of some roster, stops reading: from
\* here on every WriteBlocking to it runs into its 5 s timeout and returns
\* an error. The connection stays open and its requests are still served.
Stall(c) ==
    /\ Quiet
    /\ c \notin down
    /\ conn[c] # Closed
    /\ \E r \in DOMAIN rooms : conn[c].tempPlayerID \in rooms[r].Players
    /\ down' = down \cup {c}
    /\ sent' = Nothing
    /\ UNCHANGED <<rooms, players, registry, smu, conn, watch, roomCap, announced, wire, snap, lk>>

\* The requests that broadcast to a roster.
BroadcastKinds == {"READY", "PERFORM_ACTION", "END_PHASE", "CLOSE"}

InitDown == InitWatching(BroadcastKinds, 1)

NextDown == NextSent \/ \E c \in Conns : Stall(c)

\* The runs with unresponsive peers, the broadcasting requests recorded.
SpecDown == InitDown /\ [][NextDown]_vars

SpecSent == InitSent /\ [][NextSent]_vars

\* -------------------------------------------------------- protocol.Codec
\* Bodies are sequences over an alphabet in which one symbol stands for one
\* syntactic unit of the JSON text and counts as one byte: the braces, a
\* whitespace byte "_", the members "type", "data", "timestamp" with a
\* non-zero value (T, D, S) or with the zero value Go gives a missing field
\* (t: "", d: null, s: 0), and a member X no field of Message matches.
\* A run of pad whitespace bytes may follow the body.
MaxMessageLength == 1048576

MemberSymbols == {"T", "D", "S", "t", "d", "s", "X"}

\* binary.BigEndian.PutUint32.
PutUint32(n) == << n \div 16777216, (n \div 65536) % 256, (n \div 256) % 256, n % 256 >>

\* binary.BigEndian.Uint32.
Uint32(b) == b[1] * 16777216 + b[2] * 65536 + b[3] * 256 + b[4]

\* The symbols of body that are not whitespace, in order.
RECURSIVE Significant(_)
Significant(body) ==
    IF body = <<>> THEN <<>>
    ELSE IF Head(body) = "_" THEN Significant(Tail(body))
    ELSE <<Head(body)>> \o Significant(Tail(body))

\* json.Unmarshal(data, &msg): the text must be one object; a member sets its
\* field (the last one wins), members of unknown name are dropped, a field
\* without member keeps its zero value.
Unmarshal(data) ==
    LET toks == Significant(data.body)
        n == Len(toks)
        Has(x) == \E i \in 2..(n - 1) : toks[i] = x
        Last(x, z) == IF ~Has(x) /\ ~Has(z) THEN z
                      ELSE toks[CHOOSE i \in 2..(n - 1) :
                                  /\ toks[i] \in {x, z}
                                  /\ \A j \in (i + 1)..(n - 1) : toks[j] \notin {x, z}]
    IN  IF n < 2 \/ toks[1] # "{" \/ toks[n] # "}"
           \/ \E i \in 2..(n - 1) : toks[i] \notin MemberSymbols
        THEN [err |-> "decode message", msg |-> <<>>]
        ELSE [err |-> "", msg |-> <<Last("T", "t"), Last("D", "d"), Last("S", "s")>>]

\* json.Marshal with omitempty on every field.
Marshal_OmitEmpty(msg) ==
    <<"{">> \o Significant([i \in 1..3 |-> IF msg[i] \in {"t", "d", "s"} THEN "_" ELSE msg[i]])
            \o <<"}">>

\* Message.ensureCached, json.Marshal(m): the fields in declaration order,
\* compact, every field present.
Marshal(msg) == <<"{">> \o msg \o <<"}">>

\* Codec.Decode with the size check length >= 1024*1024.
Decode_RejectsLimit(stream) ==
    IF Len(stream.hdr) < 4
    THEN [err |-> "read message length", read |-> Len(stream.hdr), data |-> <<>>, msg |-> <<>>]
    ELSE LET length == Uint32(stream.hdr)
             avail == Len(stream.body) + stream.pad
         IN  IF length >= MaxMessageLength
             THEN [err |-> "message too large", read |-> 4, data |-> <<>>, msg |-> <<>>]
             ELSE IF length > avail
             THEN [err |-> "read message body", read |-> 4 + avail, data |-> <<>>, msg |-> <<>>]
             ELSE LET data == IF length <= Len(stream.body)
                              THEN [body |-> SubSeq(stream.body, 1, length), pad |-> 0]
                              ELSE [body |-> stream.body, pad |-> length - Len(stream.body)]
                      u == Unmarshal(data)
                  IN  [err |-> u.err, read |-> 4 + length, data |-> data, msg |-> u.msg]

\* Codec.Decode: the error or the message, the number of bytes taken from the
\* reader, and the body bytes read.
Decode(stream) ==
    IF Len(stream.hdr) < 4
    THEN [err |-> "read message length", read |-> Len(stream.hdr), data |-> <<>>, msg |-> <<>>]
    ELSE LET length == Uint32(stream.hdr)
             avail == Len(stream.body) + stream.pad
         IN  IF length > MaxMessageLength
             THEN [err |-> "message too large", read |-> 4, data |-> <<>>, msg |-> <<>>]
             ELSE IF length > avail
             THEN [err |-> "read message body", read |-> 4 + avail, data |-> <<>>, msg |-> <<>>]
             ELSE LET data == IF length <= Len(stream.body)
                              THEN [body |-> SubSeq(stream.body, 1, length), pad |-> 0]
                              ELSE [body |-> stream.body, pad |-> length - Len(stream.body)]
                      u == Unmarshal(data)
                  IN  [err |-> u.err, read |-> 4 + length, data |-> data, msg |-> u.msg]

\* Codec.Encode: the length prefix and message.Body().
Encode(msg) ==
    LET body == Marshal(msg)
    IN  [hdr |-> PutUint32(Len(body)), body |-> body, pad |-> 0]

\* The JSON objects given to Decode: optional leading whitespace, at most
\* MaxMembers members.
Members == UNION { [1..n -> MemberSymbols] : n \in 0..MaxMembers }

Bodies == { lead \o <<"{">> \o m \o <<"}">> : lead \in {<<>>, <<"_">>}, m \in Members }

\* The whitespace that follows body b in a stream: none, or enough to make
\* its bytes up to the limit, or one less or more.
Pads(b) ==
    {0, MaxMessageLength - Len(b) - 1, MaxMessageLength - Len(b),
     MaxMessageLength - Len(b) + 1}

\* The lengths a prefix declares before body b and pad whitespace bytes:
\* nothing, the body's length, one byte less or more, the body with its
\* whitespace, or a length at the limit.
Lengths(b, pad) ==
    {0, Len(b) - 1, Len(b), Len(b) + 1, Len(b) + pad,
     MaxMessageLength - 1, MaxMessageLength, MaxMessageLength + 1, 2147483647}

\* The Codec has been handed stream s.
Offered(s) == [NoWire EXCEPT !.phase = "stream", !.stream = s]

\* The Codec is handed a stream: a prefix cut short, or a whole prefix and a
\* body.
InitCodec ==
    /\ InitServer({}, 0)
    /\ snap = NoSnap
    /\ lk = NoLocks
    /\ \/ \E n \in {5, MaxMessageLength}, k \in 0..3 :
             wire = Offered([hdr |-> SubSeq(PutUint32(n), 1, k), body |-> <<>>, pad |-> 0])
       \/ \E b \in Bodies : \E pad \in Pads(b) : \E n \in Lengths(b, pad) :
             wire = Offered([hdr |-> PutUint32(n), body |-> b, pad |-> pad])

\* socket reads a message: Codec.Decode(r).
CodecDecode ==
    /\ wire.phase = "stream"
    /\ wire' = [wire EXCEPT !.phase = "decoded", !.res = Decode(wire.stream)]
    /\ UNCHANGED <<rooms, players, registry, smu, conn, sent, watch, roomCap, announced, down, snap, lk>>

\* The decoded message is written back: Codec.Encode(msg).
CodecEncode ==
    /\ wire.phase = "decoded"
    /\ wire.res.err = ""
    /\ wire' = [wire EXCEPT !.phase = "encoded", !.out = Encode(wire.res.msg)]
    /\ UNCHANGED <<rooms, players, registry, smu, conn, sent, watch, roomCap, announced, down, snap, lk>>

NextCodec == CodecDecode \/ CodecEncode

SpecCodec == InitCodec /\ [][NextCodec]_vars

\* ------------------------------------------------- protocol.Message cache
\* One outbound envelope instance: its three fields, cachedBody (<<>> for
\* nil), the number of json.Marshal(m) calls made on it, and what each call
\* of Body, Length and Codec.Encode on it returned, in call order.
MaxCalls == 3

\* NewMessage: the envelopes a handler builds.
Envelopes == { <<a, b, c>> : a \in {"T", "t"}, b \in {"D", "d"}, c \in {"S", "s"} }

\* Message.ensureCached without the assignment to m.cachedBody.
ensureCached_NoStore(env) ==
    [env EXCEPT !.marshals = env.marshals + 1, !.cachedBody = <<>>]

\* Message.ensureCached.
ensureCached(env) ==
    IF env.cachedBody = <<>>
    THEN [env EXCEPT !.cachedBody = Marshal(env.msg), !.marshals = env.marshals + 1]
    ELSE env

\* What json.Marshal(m) gives for the envelope when cachedBody is read.
Cached(env) == IF env.cachedBody = <<>> THEN Marshal(env.msg) ELSE env.cachedBody

InitEnvelope ==
    /\ InitServer({}, 0)
    /\ snap = NoSnap
    /\ lk = NoLocks
    /\ \E msg \in Envelopes :
          wire = [phase |-> "envelope", msg |-> msg, cachedBody |-> <<>>,
                  marshals |-> 0, out |-> <<>>]

\* Message.Body on the envelope.
MessageBody ==
    /\ wire.phase = "envelope"
    /\ Len(wire.out) < MaxCalls
    /\ LET env == ensureCached(wire)
           body == Cached(env)
       IN  wire' = [env EXCEPT !.out = Append(env.out, [call |-> "Body", val |-> body])]
    /\ UNCHANGED <<rooms, players, registry, smu, conn, sent, watch, roomCap, announced, down, snap, lk>>

\* Message.Length on the envelope.
MessageLength ==
    /\ wire.phase = "envelope"
    /\ Len(wire.out) < MaxCalls
    /\ LET env == ensureCached(wire)
           body == Cached(env)
       IN  wire' = [env EXCEPT !.out = Append(env.out, [call |-> "Length", val |-> Len(body)])]
    /\ UNCHANGED <<rooms, players, registry, smu, conn, sent, watch, roomCap, announced, down, snap, lk>>

\* Codec.Encode on the envelope, once per recipient of a broadcast.
EncodeEnvelope ==
    /\ wire.phase = "envelope"
    /\ Len(wire.out) < MaxCalls
    /\ LET env == ensureCached(wire)
           body == Cached(env)
       IN  wire' = [env EXCEPT !.out = Append(env.out,
                       [call |-> "Encode",
                        val |-> [hdr |-> PutUint32(Len(body)), body |-> body, pad |-> 0]])]
    /\ UNCHANGED <<rooms, players, registry, smu, conn, sent, watch, roomCap, announced, down, snap, lk>>

NextEnvelope == MessageBody \/ MessageLength \/ EncodeEnvelope

SpecEnvelope == InitEnvelope /\ [][NextEnvelope]_vars

\* ------------------------------------------------- the ready-to-start run
\* The run of src/tests/fullgame and of the test client's main: every
\* connection logs in once, rooms are created and joined, every player sends
\* READY once, nobody disconnects and Engine.Start() succeeds.
\* ------------------------------------------------------ Room.SendGameState
\* The payload of GAME_STATE as a function of the engine snapshot, the roster
\* and the order in which the two `range` loops visit their maps (Go leaves
\* the iteration order of a map unspecified).  The round is read from the
\* snapshot like the phase; the envelope's timestamp is not part of the
\* payload.

\* The orders a `range` over a map with the keys S may take.
RangeOrders(S) ==
    {o \in [1..Cardinality(S) -> S] : \A i, j \in 1..Cardinality(S) : i # j => o[i] # o[j]}

\* convertPlayersInfo(false) visiting r.Players in the order byRoster, and
\* the alivePlayers loop visiting state.Players in the order byEngine.
GameStateData(sn, byRoster, byEngine) ==
    [phase |-> sn.phase,
     players |-> [i \in 1..Len(byRoster) |->
                     [ID |-> byRoster[i], IsAlive |-> byRoster[i] \in sn.alive, RoleType |-> ""]],
     alivePlayers |-> byEngine,
     isEnded |-> sn.phase = "END"]

\* The snapshots and rosters offered: the engine knows the players it was
\* started with, some of them alive; the roster holds those still connected.
InitSnapshot ==
    /\ InitServer({}, 0)
    /\ wire = NoWire
    /\ lk = NoLocks
    /\ \E known \in SUBSET (1..MaxPlayers) :
       \E roster \in SUBSET known, alive \in SUBSET known, phase \in {"DAY", "END"} :
          snap = [NoSnap EXCEPT !.roster = roster, !.known = known,
                                !.alive = alive, !.phase = phase]

\* One more SendGameState on the unchanged snapshot and roster.
BuildGameState ==
    /\ Len(snap.payloads) < 2
    /\ \E byRoster \in RangeOrders(snap.roster \cap snap.known),
          byEngine \in RangeOrders(snap.alive) :
          snap' = [snap EXCEPT !.payloads =
                      Append(@, GameStateData(snap, byRoster, byEngine))]
    /\ UNCHANGED <<rooms, players, registry, smu, conn, sent, watch, roomCap, announced,
                   wire, down, lk>>

NextSnapshot == BuildGameState

SpecSnapshot == InitSnapshot /\ [][NextSnapshot]_vars

\* ------------------------------------------------------------ Room.mu
\* What each code path does with one room's mutex and with the fields the
\* mutex is for (Players, State, Engine), statement by statement.
Op(op, field) == [op |-> op, field |-> field]

\* Room.AddPlayer, Room.GetPlayerList, then the PLAYER_JOINED loop of
\* handleJoinRoom over room.Players.
JoinOps ==
    << Op("Lock", ""), Op("read", "State"), Op("read", "Players"), Op("write", "Players"),
       Op("Unlock", ""),
       Op("RLock", ""), Op("read", "Players"), Op("RUnlock", ""),
       Op("read", "Players") >>

\* Room.RemovePlayer and the PLAYER_LEFT broadcast of Server.RemovePlayer.
LeaveOps ==
    << Op("Lock", ""), Op("write", "Players"), Op("Unlock", ""),
       Op("RLock", ""), Op("read", "Players"), Op("RUnlock", "") >>

\* Room.SetPlayerReady, the PLAYER_READY broadcast, Room.CanStart and
\* Room.Start with notifyGameStarted and its convertPlayersInfo.
ReadyOps ==
    << Op("Lock", ""), Op("read", "Players"), Op("Unlock", ""),
       Op("RLock", ""), Op("read", "Players"), Op("RUnlock", ""),
       Op("RLock", ""), Op("read", "Players"), Op("RUnlock", ""),
       Op("Lock", ""), Op("read", "State"), Op("read", "Players"), Op("write", "Engine"),
       Op("read", "Players"), Op("write", "State"),
       Op("read", "Engine"), Op("read", "Players"),
       Op("Unlock", "") >>

\* Room.SendGameState: r.Engine.GetState(), convertPlayersInfo, and
\* BroadcastMessage.
StateOps ==
    << Op("read", "Engine"), Op("read", "Engine"), Op("read", "Players"),
       Op("RLock", ""), Op("read", "Players"), Op("RUnlock", "") >>

\* handlePerformAction from its room.Engine == nil test on.
ActionOps == << Op("read", "Engine"), Op("read", "Engine") >> \o StateOps

\* The event callback on the terminal event: Room.handleGameEnded, then
\* the SendGameState of Room.handleEvent.
EventOps ==
    << Op("Lock", ""), Op("write", "State"), Op("Unlock", ""),
       Op("read", "Engine"), Op("read", "Engine"), Op("read", "Players"),
       Op("RLock", ""), Op("read", "Players"), Op("RUnlock", "") >> \o StateOps

\* The code paths a goroutine may be running.
Paths == {"JOIN", "LEAVE", "READY", "ACTION", "EVENT"}

\* The statements of a path.
Ops(path) ==
    CASE path = "JOIN" -> JoinOps
      [] path = "LEAVE" -> LeaveOps
      [] path = "READY" -> ReadyOps
      [] path = "ACTION" -> ActionOps
      [] path = "EVENT" -> EventOps
      [] OTHER -> <<>>

\* The statement goroutine c is about to execute.
AtOp(c) == Ops(lk.run[c])[lk.pc[c]]

\* Goroutine c has a statement left.
Running(c) == lk.pc[c] <= Len(Ops(lk.run[c]))

\* Each goroutine is in one of the paths, on the same room.
InitLocks ==
    /\ InitServer({}, 0)
    /\ wire = NoWire
    /\ snap = NoSnap
    /\ \E run \in [Conns -> Paths] : lk = [NoLocks EXCEPT !.run = run]

\* sync.RWMutex Lock / RLock: a writer waits for the mutex to be free, a
\* reader for no writer to hold it.
Acquire(c) ==
    /\ Running(c)
    /\ \/ /\ AtOp(c).op = "Lock"
          /\ lk.w = 0 /\ lk.r = {}
          /\ lk' = [lk EXCEPT !.w = c, !.pc[c] = @ + 1, !.acc = NoAccess]
       \/ /\ AtOp(c).op = "RLock"
          /\ lk.w = 0
          /\ lk' = [lk EXCEPT !.r = @ \cup {c}, !.pc[c] = @ + 1, !.acc = NoAccess]
    /\ UNCHANGED <<rooms, players, registry, smu, conn, sent, watch, roomCap, announced,
                   wire, down, snap>>

\* sync.RWMutex Unlock / RUnlock.
Release(c) ==
    /\ Running(c)
    /\ \/ /\ AtOp(c).op = "Unlock"
          /\ lk' = [lk EXCEPT !.w = 0, !.pc[c] = @ + 1, !.acc = NoAccess]
       \/ /\ AtOp(c).op = "RUnlock"
          /\ lk' = [lk EXCEPT !.r = @ \ {c}, !.pc[c] = @ + 1, !.acc = NoAccess]
    /\ UNCHANGED <<rooms, players, registry, smu, conn, sent, watch, roomCap, announced,
                   wire, down, snap>>

\* A statement that reads or writes a field of the room.
Access(c) ==
    /\ Running(c)
    /\ AtOp(c).op \in {"read", "write"}
    /\ lk' = [lk EXCEPT !.pc[c] = @ + 1,
                        !.acc = [by |-> c, field |-> AtOp(c).field, kind |-> AtOp(c).op]]
    /\ UNCHANGED <<rooms, players, registry, smu, conn, sent, watch, roomCap, announced,
                   wire, down, snap>>

NextLocks == \E c \in Conns : Acquire(c) \/ Release(c) \/ Access(c)

SpecLocks == InitLocks /\ [][NextLocks]_vars

\* ------------------------------------------------- Server.mu and Room.mu
\* The calls each code path makes on the registry's mutex ("s") and on one
\* room's mutex ("r"), in program order.
MuOp(op, mu) == [op |-> op, mu |-> mu]

Mutexes == {"s", "r"}

\* Server.GetPlayer / Server.GetRoom.
GetOps == << MuOp("RLock", "s"), MuOp("RUnlock", "s") >>

\* Room.BroadcastMessage that looks each recipient up with Server.GetPlayer
\* inside its read section.
BroadcastMessageOps_ViaRegistry ==
    << MuOp("RLock", "r"), MuOp("RLock", "s"), MuOp("RUnlock", "s"), MuOp("RUnlock", "r") >>

\* Room.BroadcastMessage (also Room.GetPlayerList and Room.CanStart, which
\* take the same read section).
BroadcastMessageOps == << MuOp("RLock", "r"), MuOp("RUnlock", "r") >>

\* Room.AddPlayer, Room.RemovePlayer, Room.SetPlayerReady, Room.Start and
\* the State write of Room.handleGameEnded.
ExclusiveOps == << MuOp("Lock", "r"), MuOp("Unlock", "r") >>

\* Server.RemovePlayer: the registry's exclusive section around
\* room.RemovePlayer and the PLAYER_LEFT broadcast.
RemovePlayerOps ==
    <<MuOp("Lock", "s")>> \o ExclusiveOps \o BroadcastMessageOps \o <<MuOp("Unlock", "s")>>

\* handleJoinRoom: GetRoom, GetPlayer, room.AddPlayer, room.GetPlayerList.
HandleJoinRoomOps == GetOps \o GetOps \o ExclusiveOps \o BroadcastMessageOps

\* handleReady: GetPlayer, GetRoom, SetPlayerReady, the PLAYER_READY
\* broadcast, CanStart, Start.
HandleReadyOps ==
    GetOps \o GetOps \o ExclusiveOps \o BroadcastMessageOps \o BroadcastMessageOps
           \o ExclusiveOps

\* handlePerformAction: GetPlayer, GetRoom, then the engine call, from which
\* the event callback runs handleGameEnded (State write, GAME_ENDED
\* broadcast) and SendGameState, then the handler's own SendGameState.
HandlePerformActionOps ==
    GetOps \o GetOps \o ExclusiveOps \o BroadcastMessageOps \o BroadcastMessageOps
           \o BroadcastMessageOps

OrderPaths == {"CLOSE", "JOIN_ROOM", "READY", "PERFORM_ACTION"}

\* Room.Start whose r.Engine.Start() delivers no event to the callback.
StartOps == ExclusiveOps

\* Room.Start whose r.Engine.Start() calls the callback of subscribeEvents
\* with an event that is not the terminal one: handleEvent runs
\* SendGameState inside Start's exclusive section.
StartEventOps == <<MuOp("Lock", "r")>> \o BroadcastMessageOps \o <<MuOp("Unlock", "r")>>

\* The same with the terminal event: handleGameEnded (State write, GAME_ENDED
\* broadcast), then SendGameState, inside Start's exclusive section.
StartEndedOps ==
    <<MuOp("Lock", "r")>> \o ExclusiveOps \o BroadcastMessageOps \o BroadcastMessageOps
                         \o <<MuOp("Unlock", "r")>>

StartPaths == {"START", "START_EVENT", "START_ENDED"}

MuOps(path) ==
    CASE path = "CLOSE" -> RemovePlayerOps
      [] path = "JOIN_ROOM" -> HandleJoinRoomOps
      [] path = "READY" -> HandleReadyOps
      [] path = "PERFORM_ACTION" -> HandlePerformActionOps
      [] path = "START" -> StartOps
      [] path = "START_EVENT" -> StartEventOps
      [] path = "START_ENDED" -> StartEndedOps
      [] OTHER -> <<>>

\* Goroutine c has a call left, and the call.
MuRunning(c) == lk.pc[c] <= Len(MuOps(lk.run[c]))

AtMuOp(c) == MuOps(lk.run[c])[lk.pc[c]]

\* The goroutines blocked in Lock on mutex m.
Pending(m) == {d \in lk.pend : MuRunning(d) /\ AtMuOp(d).mu = m}

\* Both mutexes free, each goroutine at the start of one of the paths.
InitOrder ==
    /\ InitServer({}, 0)
    /\ wire = NoWire
    /\ snap = NoSnap
    /\ \E run \in [Conns -> OrderPaths] :
          lk = [w |-> [m \in Mutexes |-> 0], r |-> [m \in Mutexes |-> {}], pend |-> {},
                run |-> run, pc |-> [c \in Conns |-> 1]]

\* sync.RWMutex.Lock is called: from now on RLock calls on the mutex block.
CallLock(c) ==
    /\ MuRunning(c)
    /\ AtMuOp(c).op = "Lock"
    /\ c \notin lk.pend
    /\ lk' = [lk EXCEPT !.pend = @ \cup {c}]
    /\ UNCHANGED <<rooms, players, registry, smu, conn, sent, watch, roomCap, announced,
                   wire, down, snap>>

\* sync.RWMutex Lock / RLock returns: a writer once the mutex is free, a
\* reader once no writer holds it or waits for it.
AcquireMu(c) ==
    /\ MuRunning(c)
    /\ LET m == AtMuOp(c).mu IN
       \/ /\ AtMuOp(c).op = "Lock"
          /\ c \in lk.pend
          /\ lk.w[m] = 0 /\ lk.r[m] = {}
          /\ lk' = [lk EXCEPT !.w[m] = c, !.pend = @ \ {c}, !.pc[c] = @ + 1]
       \/ /\ AtMuOp(c).op = "RLock"
          /\ lk.w[m] = 0 /\ Pending(m) = {}
          /\ lk' = [lk EXCEPT !.r[m] = @ \cup {c}, !.pc[c] = @ + 1]
    /\ UNCHANGED <<rooms, players, registry, smu, conn, sent, watch, roomCap, announced,
                   wire, down, snap>>

\* sync.RWMutex Unlock / RUnlock.
ReleaseMu(c) ==
    /\ MuRunning(c)
    /\ LET m == AtMuOp(c).mu IN
       \/ /\ AtMuOp(c).op = "Unlock"
          /\ lk' = [lk EXCEPT !.w[m] = 0, !.pc[c] = @ + 1]
       \/ /\ AtMuOp(c).op = "RUnlock"
          /\ lk' = [lk EXCEPT !.r[m] = @ \ {c}, !.pc[c] = @ + 1]
    /\ UNCHANGED <<rooms, players, registry, smu, conn, sent, watch, roomCap, announced,
                   wire, down, snap>>

StepOrder(c) == CallLock(c) \/ AcquireMu(c) \/ ReleaseMu(c)

NextOrder == \E c \in Conns : CallLock(c) \/ AcquireMu(c) \/ ReleaseMu(c)

\* The Go scheduler runs every goroutine that can take a step.
FairOrder == \A c \in Conns : WF_vars(StepOrder(c))

SpecOrder == InitOrder /\ [][NextOrder]_vars /\ FairOrder

\* Goroutine 1 is in Room.Start, the other goroutines in any path.
InitStart ==
    /\ InitServer({}, 0)
    /\ wire = NoWire
    /\ snap = NoSnap
    /\ \E run \in [Conns -> StartPaths \cup OrderPaths] :
          /\ run[1] \in StartPaths
          /\ lk = [w |-> [m \in Mutexes |-> 0], r |-> [m \in Mutexes |-> {}], pend |-> {},
                   run |-> run, pc |-> [c \in Conns |-> 1]]

SpecStart == InitStart /\ [][NextOrder]_vars /\ FairOrder

LoginOnce(c) ==
    /\ conn[c].tempPlayerID = NoPlayer
    /\ Login(c)
    /\ conn'[c].pc # "closing"

LoginWritten(c) == LoginWrite(c) /\ conn'[c].pc = "idle"

ReadyOnce(c) ==
    /\ conn[c].pc = "idle"
    /\ conn[c].tempPlayerID # NoPlayer
    /\ ~players[conn[c].tempPlayerID].IsReady
    /\ Ready(c)

StartSucceeds(c) ==
    /\ Start(c)
    /\ \A r \in 1..Len(rooms) :
          rooms'[r].Engine # rooms[r].Engine => rooms'[r].EngineStarted

NextReady ==
    \/ \E c \in Conns :
          \/ LoginOnce(c) \/ LoginWritten(c)
          \/ CreateRoom(c) \/ CreateAdd(c) \/ JoinRoom(c)
          \/ ReadyOnce(c) \/ ReadyCanStart(c) \/ StartSucceeds(c)
    \/ Collect

\* Each connection is served by its own goroutine, which the Go scheduler
\* runs whenever it can take a step; every logged-in client sends its READY.
FairReady ==
    /\ WF_vars(Collect)
    /\ \A c \in Conns :
          /\ WF_vars(LoginWritten(c))
          /\ WF_vars(CreateAdd(c))
          /\ WF_vars(ReadyOnce(c))
          /\ WF_vars(ReadyCanStart(c))
          /\ WF_vars(StartSucceeds(c))

SpecReady == InitWatching({"READY"}, MaxRooms) /\ [][NextReady]_vars /\ FairReady

TypeOK ==
    /\ smu \in {0} \cup Conns
    /\ registry \subseteq 1..Len(players)
    /\ Len(players) <= MaxPlayers
    /\ Len(rooms) <= MaxRooms

\* ------------------------------------------------------------ properties
\* C1: in every reachable state every room's roster is no larger than its
\* list of role slots, and an AddPlayer call (by handleCreateRoom or
\* handleJoinRoom) on a Waiting room whose roster is at capacity is answered
\* with the error "room is full" and leaves the roster unchanged.
C1_RosterWithinCapacity ==
    /\ [](\A r \in 1..Len(rooms) : Cardinality(rooms[r].Players) <= Len(rooms[r].Roles))
    /\ [][\A r \in 1..Len(rooms) :
             (/\ sent'.req \in {"CREATE_ROOM", "JOIN_ROOM"}
              /\ sent'.arg = r
              /\ rooms[r].State = "WAITING"
              /\ Cardinality(rooms[r].Players) >= Len(rooms[r].Roles))
             => /\ sent'.msgs = <<ToPlayer("ERROR", conn[sent'.conn].tempPlayerID,
                                           NoPlayer, "room is full", {}, FALSE)>>
                /\ rooms'[r].Players = rooms[r].Players]_vars

\* An AddPlayer call has just been refused on a Waiting room at capacity.
C1_Witness ==
    /\ sent.req \in {"CREATE_ROOM", "JOIN_ROOM"}
    /\ sent.arg \in 1..Len(rooms)
    /\ rooms[sent.arg].State = "WAITING"
    /\ Cardinality(rooms[sent.arg].Players) = Len(rooms[sent.arg].Roles)
    /\ \E i \in 1..Len(sent.msgs) : sent.msgs[i].text = "room is full"

\* C2, as stated: whenever a room's state changes from Waiting to Playing
\* its roster is full and every member's ready flag is true, and a room that
\* has left Waiting never makes the transition again.
C2_StartOnlyWhenAllReady ==
    [][\A r \in 1..Len(rooms) :
          /\ (rooms[r].State = "WAITING" /\ rooms'[r].State = "PLAYING")
             => /\ Cardinality(rooms[r].Players) = Len(rooms[r].Roles)
                /\ \A p \in rooms[r].Players : players[p].IsReady
          /\ rooms[r].State # "WAITING" => rooms'[r].State # "WAITING"]_vars

\* C3, as stated: exactly one engine instance is ever constructed for a room
\* and a room that is no longer Waiting has one.
C3_ExactlyOneEngine ==
    \A r \in 1..Len(rooms) :
       /\ rooms[r].Engine <= 1
       /\ rooms[r].State # "WAITING" => rooms[r].Engine = 1

\* C3, amended: once a room has left Waiting no Start call moves its state or
\* constructs an engine again, so at most one call performs the transition;
\* a Start call that finds the room not Waiting changes nothing and is
\* answered with no message at all (the benign error is swallowed); a call
\* constructs one engine, and a room that already has one gets another only
\* while Waiting, after the earlier engine's Start() failed.
C3_StartRace ==
    [][\A r \in 1..Len(rooms) :
          /\ rooms[r].State # "WAITING"
             => /\ rooms'[r].State # "WAITING"
                /\ rooms'[r].Engine = rooms[r].Engine
          /\ rooms'[r].Engine # rooms[r].Engine
             => /\ rooms'[r].Engine = rooms[r].Engine + 1
                /\ rooms[r].Engine # NoEngine => ~rooms[r].EngineStarted
          /\ \A c \in Conns :
                (/\ conn[c].pc = "readyStart"
                 /\ conn[c].room = r
                 /\ sent'.conn = c
                 /\ rooms[r].State # "WAITING")
                => sent'.msgs = <<>> /\ rooms' = rooms]_vars

\* A Start call has just lost the race: the room is Playing with its first
\* engine and the call wrote nothing.
C3_Witness ==
    /\ sent.req = "READY"
    /\ sent.arg \in 1..Len(rooms)
    /\ sent.msgs = <<>>
    /\ rooms[sent.arg].State = "PLAYING"
    /\ rooms[sent.arg].Engine = 1

\* C4: a room is created Waiting; its state changes only from Waiting to
\* Playing, in a Start call whose engine started, and from Playing to
\* Finished, in the END_PHASE step in which the engine reported its terminal
\* event; a Finished room's state never changes.
C4_StateMachine ==
    [][/\ Len(rooms') > Len(rooms) => rooms'[Len(rooms')].State = "WAITING"
       /\ \A r \in 1..Len(rooms) :
             \/ rooms'[r].State = rooms[r].State
             \/ /\ rooms[r].State = "WAITING" /\ rooms'[r].State = "PLAYING"
                /\ \E c \in Conns : /\ conn[c].pc = "readyStart"
                                    /\ conn[c].room = r
                                    /\ sent'.conn = c
                /\ rooms'[r].EngineStarted
             \/ /\ rooms[r].State = "PLAYING" /\ rooms'[r].State = "FINISHED"
                /\ sent'.req = "END_PHASE" /\ sent'.arg = r
                /\ ~rooms[r].EngineEnded /\ rooms'[r].EngineEnded]_vars

\* A room has gone through Waiting, Playing and Finished.
C4_Witness == \E r \in 1..Len(rooms) : rooms[r].State = "FINISHED"

\* C5: a JOIN_ROOM request naming a room that is Playing or Finished is
\* answered with the error "room is not in waiting state" and changes
\* neither the room's roster nor the requesting player's RoomID.
C5_JoinNotWaiting ==
    [][\A r \in 1..Len(rooms) :
          (sent'.req = "JOIN_ROOM" /\ sent'.arg = r /\ rooms[r].State # "WAITING")
          => LET p == conn[sent'.conn].tempPlayerID IN
             /\ sent'.msgs = <<ToPlayer("ERROR", p, NoPlayer,
                                        "room is not in waiting state", {}, FALSE)>>
             /\ rooms'[r].Players = rooms[r].Players
             /\ players'[p].RoomID = players[p].RoomID]_vars

\* A player outside a started room has just been refused by it.
C5_Witness ==
    /\ sent.req = "JOIN_ROOM"
    /\ sent.arg \in 1..Len(rooms)
    /\ rooms[sent.arg].State \in {"PLAYING", "FINISHED"}
    /\ conn[sent.conn].tempPlayerID \notin rooms[sent.arg].Players
    /\ \E i \in 1..Len(sent.msgs) : sent.msgs[i].text = "room is not in waiting state"

\* C6, as stated: a step in which Room.AddPlayer, Room.SetPlayerReady or
\* Room.Start returned an error (reported by ERROR, or swallowed by
\* handleReady) leaves every room (roster, state, engine handle) and every
\* player's ready flag as it was.
C6_FailedCallsChangeNothing ==
    [][\A c \in Conns :
          (/\ sent'.conn = c
           /\ \/ \E i \in 1..Len(sent'.msgs) :
                    /\ sent'.msgs[i].type = "ERROR"
                    /\ sent'.msgs[i].text \in
                          {"room is full", "room is not in waiting state",
                           "player not in room", "need players", "start engine"}
              \/ conn[c].pc = "readyStart" /\ sent'.msgs = <<>>)
          => rooms' = rooms /\ players' = players]_vars

\* C7, as stated: every player in a room's roster has that room as RoomID
\* (hence is in no other roster).
C7_OneRoomPerPlayer ==
    \A p \in 1..Len(players) : \A r \in 1..Len(rooms) :
       p \in rooms[r].Players => players[p].RoomID = r

\* C8, as stated: at most one registered Player is bound to a connection.
C8_OnePlayerPerConnection ==
    \A c \in Conns : Cardinality({p \in registry : players[p].Conn = c}) <= 1

\* C9, as stated: once a connection's teardown has completed no Player
\* created on it is left in the registry or in any roster.
C9_TeardownCleansUp ==
    \A c \in Conns :
       conn[c].pc = "closed"
       => \A p \in 1..Len(players) :
             players[p].Conn = c
             => /\ p \notin registry
                /\ \A r \in 1..Len(rooms) : p \notin rooms[r].Players

\* C10, as stated: when the connection of a member of a Waiting room is torn
\* down that room's roster shrinks by exactly one, and the broadcast that
\* follows sends every remaining member exactly one PLAYER_LEFT naming the
\* departed player.
C10_PlayerLeft ==
    [][\A c \in Conns :
          /\ (conn[c].pc = "closing" /\ conn'[c].pc # "closing")
             => \A p \in 1..Len(players) : \A r \in 1..Len(rooms) :
                   (players[p].Conn = c /\ p \in rooms[r].Players
                                        /\ rooms[r].State = "WAITING")
                   => Cardinality(rooms'[r].Players) = Cardinality(rooms[r].Players) - 1
          /\ (conn[c].pc = "playerLeft" /\ conn'[c].pc = "closed")
             => \A q \in rooms[conn[c].room].Players :
                   Cardinality({i \in 1..Len(sent'.msgs) :
                                   /\ sent'.msgs[i].type = "PLAYER_LEFT"
                                   /\ sent'.msgs[i].to = q
                                   /\ sent'.msgs[i].subj = conn[c].tempPlayerID}) = 1]_vars

\* C11: on a connection that has not logged in, a message of any kind but
\* LOGIN is answered with one ERROR "please login first" written to that
\* connection; the connection stays open in its read loop and the rooms, the
\* Player objects and the registry are unchanged.
C11_LoginFirst ==
    [][\A c \in Conns :
          (/\ sent'.conn = c
           /\ sent'.req # "LOGIN"
           /\ conn[c].pc = "idle"
           /\ conn[c].tempPlayerID = NoPlayer)
          => /\ sent'.msgs = <<Msg("ERROR", c, NoPlayer, NoPlayer,
                                   "please login first", {}, FALSE)>>
             /\ conn'[c] = conn[c]
             /\ rooms' = rooms /\ players' = players /\ registry' = registry]_vars

\* A connection without a Player has just been told to log in first, while
\* another connection has a room.
C11_Witness ==
    /\ sent.conn \in Conns
    /\ sent.req \in MessageKinds \ {"LOGIN"}
    /\ conn[sent.conn].tempPlayerID = NoPlayer
    /\ conn[sent.conn].pc = "idle"
    /\ Len(rooms) > 0
    /\ \E i \in 1..Len(sent.msgs) : sent.msgs[i].text = "please login first"

\* C12: a PERFORM_ACTION whose skill is not among the skills the engine
\* allows the player at that time is answered with one ACTION_RESULT
\* success=false to the player, is not passed to Engine.SubmitSkillUse, and
\* leaves the room and its engine as they were.
C12_SkillNotAllowed ==
    [][(/\ sent'.req = "PERFORM_ACTION"
        /\ sent'.in.skill \in SkillTypes
        /\ sent'.in.skill \notin sent'.in.allowed)
       => LET p == conn[sent'.conn].tempPlayerID
              results == {i \in 1..Len(sent'.msgs) : sent'.msgs[i].type = "ACTION_RESULT"}
          IN  /\ results = {1}
              /\ sent'.msgs[1].to = p
              /\ sent'.msgs[1].flag = FALSE
              /\ ~sent'.in.submitted
              /\ rooms' = rooms]_vars

\* A player of a running game has just named a skill the engine does not
\* allow, while the engine allows another one.
C12_Witness ==
    /\ sent.req = "PERFORM_ACTION"
    /\ sent.in.skill \in SkillTypes
    /\ sent.in.allowed # {}
    /\ sent.in.skill \notin sent.in.allowed
    /\ rooms[sent.arg].State = "PLAYING"
    /\ \E i \in 1..Len(sent.msgs) : sent.msgs[i].type = "ACTION_RESULT"

\* C13: in the step that takes a room to Playing every roster member is sent
\* exactly one GAME_STARTED, on the member's own connection; its role is the
\* one the engine holds for that member and its camp the camp of that role;
\* and no entry of the players list of any GAME_STARTED carries a role.
C13_GameStartedPrivate ==
    [][\A r \in 1..Len(rooms) :
          (rooms[r].State = "WAITING" /\ rooms'[r].State = "PLAYING")
          => LET started == {i \in 1..Len(sent'.msgs) : sent'.msgs[i].type = "GAME_STARTED"}
             IN  /\ \A p \in rooms'[r].Players :
                       Cardinality({i \in started : sent'.msgs[i].to = p}) = 1
                 /\ \A i \in started :
                       LET m == sent'.msgs[i] IN
                       /\ m.to \in rooms'[r].Players
                       /\ m.conn = players[m.to].Conn
                       /\ m.role = rooms'[r].Assigned[m.to]
                       /\ m.camp = GetRoleCamp(rooms'[r].Assigned[m.to])
                       /\ m.infos # {}
                       /\ \A info \in m.infos : info.RoleType = ""]_vars

\* A two-player room has just started and the two GAME_STARTED messages name
\* different roles.
C13_Witness ==
    /\ sent.req = "READY"
    /\ sent.arg \in 1..Len(rooms)
    /\ rooms[sent.arg].State = "PLAYING"
    /\ Cardinality(rooms[sent.arg].Players) = 2
    /\ \E i, j \in 1..Len(sent.msgs) :
          /\ sent.msgs[i].type = "GAME_STARTED"
          /\ sent.msgs[j].type = "GAME_STARTED"
          /\ sent.msgs[i].role = "werewolf"
          /\ sent.msgs[j].role = "witch"
          /\ Cardinality(sent.msgs[i].infos) = 2

\* C14, as stated: once a Waiting room has a full roster of at least one
\* member, all not ready and each the player of its connection, then, every member
\* sending READY once, nobody disconnecting and the engine starting, the
\* room eventually is Playing and its members have been sent GAME_STARTED.
C14_AllReadyStarts ==
    \A r \in RoomIDs :
       (/\ r <= Len(rooms)
        /\ rooms[r].State = "WAITING"
        /\ rooms[r].Players # {}
        /\ Cardinality(rooms[r].Players) = Len(rooms[r].Roles)
        /\ \A p \in rooms[r].Players :
              ~players[p].IsReady /\ conn[players[p].Conn].tempPlayerID = p)
       ~> (/\ r <= Len(rooms)
           /\ rooms[r].State = "PLAYING"
           /\ sent.arg = r
           /\ \A p \in rooms[r].Players :
                 \E i \in 1..Len(sent.msgs) :
                    sent.msgs[i].type = "GAME_STARTED" /\ sent.msgs[i].to = p)

\* C15, as stated: when the handler of a logged-in connection's request
\* returns an error, one ERROR goes to the acting player, no message of the
\* step goes to another player, and the connection stays open; and the
\* message callback ends a connection only when a write has failed.
C15_BusinessErrors ==
    [][\A c \in Conns :
          LET p == conn[c].tempPlayerID
              errors == {i \in 1..Len(sent'.msgs) : sent'.msgs[i].type = "ERROR"}
          IN  /\ (/\ sent'.conn = c
                  /\ sent'.req \in MessageKinds \ {"LOGIN"}
                  /\ p # NoPlayer
                  /\ errors # {})
                 => /\ Cardinality(errors) = 1
                    /\ \A i \in 1..Len(sent'.msgs) : sent'.msgs[i].to = p
                    /\ conn'[c].pc = "idle"
              /\ (/\ sent'.conn = c
                  /\ conn[c].pc = "idle"
                  /\ conn'[c].pc = "closing")
                 => \E i \in 1..Len(sent'.msgs) : ~sent'.msgs[i].ok]_vars

\* The message types the branch of HandleConnection / HandleMessage taken
\* for a request kind can send.
C16_Replies(kind) ==
    CASE kind = "LOGIN"          -> {"LOGIN_SUCCESS"}
      [] kind = "CREATE_ROOM"    -> {"ROOM_CREATED", "ROOM_JOINED", "ERROR"}
      [] kind = "JOIN_ROOM"      -> {"ROOM_JOINED", "PLAYER_JOINED", "ERROR"}
      [] kind = "READY"          -> {"PLAYER_READY", "GAME_STARTED", "ERROR"}
      [] kind = "PERFORM_ACTION" -> {"ACTION_RESULT", "GAME_STATE", "ERROR"}
      [] kind = "END_PHASE"      -> {"GAME_EVENT", "GAME_ENDED", "PHASE_CHANGED",
                                     "ROLE_INFO", "ALLOWED_SKILLS", "GAME_STATE",
                                     "ERROR"}
      [] OTHER                   -> {"ERROR"}

\* C16: a message of a logged-in connection is handled by the one branch of
\* its kind (every message the step sends is one that branch sends, and the
\* "unknown message type" error is sent for no handled kind); a message of
\* no handled kind is answered with the single error "unknown message type"
\* to the acting player on that connection, and registry, rooms, engines,
\* players and the connection stay as they were.
C16_RoutedByKind ==
    [][\A c \in Conns :
          (/\ sent'.conn = c
           /\ sent'.req \in MessageKinds
           /\ conn[c].pc = "idle"
           /\ conn[c].tempPlayerID # NoPlayer)
          => LET p == conn[c].tempPlayerID IN
             /\ \A i \in 1..Len(sent'.msgs) :
                   /\ sent'.msgs[i].type \in C16_Replies(sent'.req)
                   /\ sent'.req # "UNKNOWN" => sent'.msgs[i].text # "unknown message type"
             /\ sent'.req = "UNKNOWN"
                => /\ sent'.msgs = <<Msg("ERROR", c, p, NoPlayer,
                                         "unknown message type", {}, FALSE)>>
                   /\ rooms' = rooms /\ players' = players
                   /\ registry' = registry /\ conn' = conn]_vars

\* A player of a running two-player game has just sent a message of an
\* unhandled kind and was answered "unknown message type".
C16_Witness ==
    /\ sent.req = "UNKNOWN"
    /\ sent.conn \in Conns
    /\ Len(sent.msgs) = 1
    /\ sent.msgs[1].text = "unknown message type"
    /\ \E r \in 1..Len(rooms) :
          /\ rooms[r].State = "PLAYING"
          /\ conn[sent.conn].tempPlayerID \in rooms[r].Players
          /\ Cardinality(rooms[r].Players) = 2

\* C17: Decode fails with "message too large", having read the four prefix
\* bytes and no body byte, for every stream whose big-endian length prefix
\* exceeds 1048576; for a prefix of at most 1048576 it does not report
\* "message too large"; and it fails when the stream ends before the prefix
\* is complete or before the declared number of body bytes.
C17_DecodeLimit ==
    wire.phase \in {"decoded", "encoded"} =>
       LET s == wire.stream
           res == wire.res
           declared == s.hdr[1] * 16777216 + s.hdr[2] * 65536 + s.hdr[3] * 256 + s.hdr[4]
       IN  IF Len(s.hdr) < 4
           THEN res.err = "read message length" /\ res.read = Len(s.hdr)
           ELSE /\ declared > 1048576 => res.err = "message too large" /\ res.read = 4
                /\ declared <= 1048576 => res.err # "message too large"
                /\ (declared <= 1048576 /\ declared > Len(s.body) + s.pad)
                   => res.err = "read message body"
                /\ res.err = "" => res.read = 4 + declared

\* Decode has accepted a frame whose prefix is exactly 1048576 and whose
\* body fills it.
C17_Witness ==
    /\ wire.phase = "decoded"
    /\ wire.stream.hdr = <<0, 16, 0, 0>>
    /\ Len(wire.stream.body) + wire.stream.pad = 1048576
    /\ wire.res.err = ""
    /\ wire.res.read = 1048580

C18_Canonical(data) ==
    /\ data.pad = 0
    /\ Len(data.body) = 5
    /\ data.body[1] = "{"
    /\ data.body[2] \in {"T", "t"}
    /\ data.body[3] \in {"D", "d"}
    /\ data.body[4] \in {"S", "s"}
    /\ data.body[5] = "}"

C19_ReplyWrittenFirst ==
    [][\A j \in 1..Len(sent'.msgs) :
          LET p == conn[sent'.conn].tempPlayerID
              Before(type) == \E i \in 1..(j - 1) :
                                 /\ sent'.msgs[i].type = type
                                 /\ sent'.msgs[i].to = p
                                 /\ sent'.msgs[i].ok
          IN  /\ (sent'.req = "JOIN_ROOM" /\ sent'.msgs[j].type = "PLAYER_JOINED")
                 => Before("ROOM_JOINED")
              /\ (sent'.req = "CREATE_ROOM" /\ sent'.msgs[j].type = "ROOM_JOINED")
                 => Before("ROOM_CREATED")
              /\ (sent'.req = "PERFORM_ACTION" /\ sent'.msgs[j].type = "GAME_STATE")
                 => Before("ACTION_RESULT")]_vars

\* C19, amended: for JOIN_ROOM a written ROOM_JOINED precedes every
\* PLAYER_JOINED and for CREATE_ROOM a written ROOM_CREATED precedes
\* ROOM_JOINED; for PERFORM_ACTION the send of ACTION_RESULT precedes every
\* GAME_STATE, whether or not that write succeeded.
C19_ReplySentFirst ==
    [][\A j \in 1..Len(sent'.msgs) :
          LET p == conn[sent'.conn].tempPlayerID
              Before(type, written) == \E i \in 1..(j - 1) :
                                          /\ sent'.msgs[i].type = type
                                          /\ sent'.msgs[i].to = p
                                          /\ written => sent'.msgs[i].ok
          IN  /\ (sent'.req = "JOIN_ROOM" /\ sent'.msgs[j].type = "PLAYER_JOINED")
                 => Before("ROOM_JOINED", TRUE)
              /\ (sent'.req = "CREATE_ROOM" /\ sent'.msgs[j].type = "ROOM_JOINED")
                 => Before("ROOM_CREATED", TRUE)
              /\ (sent'.req = "PERFORM_ACTION" /\ sent'.msgs[j].type = "GAME_STATE")
                 => Before("ACTION_RESULT", FALSE)]_vars

\* A player's write of ACTION_RESULT has failed and GAME_STATE has been
\* broadcast to the two players of the room all the same.
C19_Witness ==
    /\ sent.req = "PERFORM_ACTION"
    /\ Len(sent.msgs) >= 3
    /\ sent.msgs[1].type = "ACTION_RESULT"
    /\ ~sent.msgs[1].ok
    /\ Cardinality({i \in 1..Len(sent.msgs) : sent.msgs[i].type = "GAME_STATE"}) = 2

\* The player ids a message refers to: its subject (PLAYER_JOINED,
\* PLAYER_READY, PLAYER_LEFT), its roster (ROOM_JOINED, GAME_ENDED) and the
\* entries of its players list (GAME_STARTED, GAME_STATE, GAME_ENDED).
C20_Referenced(m) ==
    (IF m.subj # NoPlayer THEN {m.subj} ELSE {})
    \cup m.list \cup { info.ID : info \in m.infos }

\* C20: every player id referred to by a message a step sends, to any
\* connection, is the id of a player whose LOGIN_SUCCESS had been written
\* to its own connection before that step; LOGIN_SUCCESS itself is the
\* first message to carry the id.
C20_LoginSuccessFirst ==
    [][\A i \in 1..Len(sent'.msgs) :
          IF sent'.msgs[i].type = "LOGIN_SUCCESS"
          THEN /\ sent'.msgs[i].subj \notin announced
               /\ sent'.msgs[i].conn = players[sent'.msgs[i].subj].Conn
          ELSE C20_Referenced(sent'.msgs[i]) \subseteq announced]_vars

\* PLAYER_JOINED naming a player whose LOGIN_SUCCESS was written has just
\* been sent to another player's connection, after ROOM_JOINED with the
\* roster of both.
C20_Witness ==
    /\ sent.req = "JOIN_ROOM"
    /\ \E i \in 1..Len(sent.msgs) :
          /\ sent.msgs[i].type = "PLAYER_JOINED"
          /\ sent.msgs[i].subj \in announced
          /\ sent.msgs[i].conn # players[sent.msgs[i].subj].Conn
    /\ \E i \in 1..Len(sent.msgs) :
          /\ sent.msgs[i].type = "ROOM_JOINED"
          /\ Cardinality(sent.msgs[i].list) = 2
          /\ sent.msgs[i].list \subseteq announced

\* ------------------------------------------------------------------ C21
\* The message kinds Room.BroadcastMessage is called with.
C21_Broadcasts ==
    {"PLAYER_READY", "GAME_EVENT", "GAME_ENDED", "PHASE_CHANGED", "GAME_STATE", "PLAYER_LEFT"}

\* The sends of kind type to player p attempted by the step.
C21_Attempts(type, p) ==
    Cardinality({i \in DOMAIN sent'.msgs :
                    sent'.msgs[i].type = type /\ sent'.msgs[i].to = p})

\* C21: every broadcast of a step attempts its send to every member of the
\* roster, whichever of these sends fail; a failed send of a broadcast is
\* not turned into a write error of the request, and leaves the roster and
\* the state of the room as they are (the state moves only with the
\* GAME_ENDED the same step broadcasts).
C21_BroadcastReachesEveryMember ==
    [][sent'.req \in BroadcastKinds =>
         LET ms == sent'.msgs
             r == sent'.arg
             B == {i \in DOMAIN ms : ms[i].type \in C21_Broadcasts}
         IN  /\ \A i \in B : \A q \in rooms'[r].Players :
                    C21_Attempts(ms[i].type, q) = C21_Attempts(ms[i].type, ms[i].to)
             /\ \A i \in DOMAIN ms : ms[i].type = "ERROR" => ms[i].text # "write error"
             /\ \A i \in B : ~ms[i].ok =>
                    /\ ms[i].to \in rooms'[r].Players
                    /\ rooms'[r].Players = rooms[r].Players
                    /\ \/ rooms'[r].State = rooms[r].State
                       \/ \E j \in B : ms[j].type = "GAME_ENDED"]_vars

\* A broadcast whose first send failed and whose next send was written.
C21_Witness ==
    /\ sent.req \in BroadcastKinds
    /\ \E i, j \in DOMAIN sent.msgs :
          /\ i < j
          /\ sent.msgs[i].type \in C21_Broadcasts
          /\ sent.msgs[j].type = sent.msgs[i].type
          /\ ~sent.msgs[i].ok
          /\ sent.msgs[j].ok

\* ------------------------------------------------------------------ C22
\* What a recipient of m reads: m without its addressing and write result.
C22_Content(m) == [m EXCEPT !.conn = 0, !.to = NoPlayer, !.ok = TRUE]

\* C22: a GAME_EVENT or GAME_STATE message carries no role and no camp, each
\* entry of its players list has an empty role, and all recipients of the
\* step's messages of one of these kinds read the same content.
C22_NoRoleInEventOrState ==
    \A i \in DOMAIN sent.msgs :
       LET m == sent.msgs[i] IN
       m.type \in {"GAME_EVENT", "GAME_STATE"} =>
          /\ m.role = "" /\ m.camp = ""
          /\ \A info \in m.infos : info.RoleType = ""
          /\ \A j \in DOMAIN sent.msgs :
                sent.msgs[j].type = m.type => C22_Content(sent.msgs[j]) = C22_Content(m)

\* A kill notification and a game state sent to two players of a game in
\* which roles are assigned, the state listing both of them.
C22_Witness ==
    /\ sent.req = "END_PHASE"
    /\ \E i, j, k \in DOMAIN sent.msgs :
          /\ sent.msgs[i].type = "GAME_EVENT"
          /\ sent.msgs[j].type = "GAME_STATE"
          /\ sent.msgs[k].type = "GAME_STATE"
          /\ sent.msgs[j].to # sent.msgs[k].to
          /\ Cardinality(sent.msgs[j].infos) = 2
          /\ \A info \in sent.msgs[j].infos : rooms[sent.arg].Assigned[info.ID] # ""

\* ------------------------------------------------------------------ C23
\* C23: when a step broadcasts GAME_ENDED, the room is Finished and the
\* players list of the message holds every player the engine was started
\* with, each with its role, whether or not the player is still connected.
C23_GameEndedListsEveryParticipant ==
    \A i \in DOMAIN sent.msgs :
       LET m == sent.msgs[i] IN
       m.type = "GAME_ENDED" =>
          /\ rooms[sent.arg].State = "FINISHED"
          /\ m.to \in rooms[sent.arg].Players
          /\ \A id \in DOMAIN rooms[sent.arg].Assigned :
                [ID |-> id, RoleType |-> rooms[sent.arg].Assigned[id]] \in m.infos

\* ------------------------------------------------------------------ C24
\* C24: a ROLE_INFO with the kill target is sent only by a phase advance
\* that enters the witch's night, only to a player the engine holds as a
\* witch and reports alive, and once to that player; no request of a client
\* makes a step send it otherwise.
C24_KillTargetOnlyToLiveWitch ==
    \A i \in DOMAIN sent.msgs :
       LET m == sent.msgs[i] IN
       m.type = "ROLE_INFO" =>
          /\ sent.req = "END_PHASE"
          /\ sent.in.phase = "NIGHT_WITCH"
          /\ m.to \in DOMAIN rooms[sent.arg].Assigned
          /\ rooms[sent.arg].Assigned[m.to] = "witch"
          /\ m.to \in sent.in.alive
          /\ \A j \in DOMAIN sent.msgs :
                sent.msgs[j].type = "ROLE_INFO" /\ sent.msgs[j].to = m.to => j = i

\* The witch's night is entered in a room of two: the witch is sent the
\* kill target, the werewolf beside her is sent none.
C24_Witness ==
    /\ sent.req = "END_PHASE"
    /\ sent.in.phase = "NIGHT_WITCH"
    /\ Cardinality(rooms[sent.arg].Players) = 2
    /\ \E i \in DOMAIN sent.msgs :
          /\ sent.msgs[i].type = "ROLE_INFO"
          /\ rooms[sent.arg].Assigned[sent.msgs[i].to] = "witch"
    /\ \E q \in rooms[sent.arg].Players :
          /\ rooms[sent.arg].Assigned[q] = "werewolf"
          /\ \A i \in DOMAIN sent.msgs :
                sent.msgs[i].type = "ROLE_INFO" => sent.msgs[i].to # q

\* ------------------------------------------------------------------ C25
\* C25: in every step, each GAME_EVENT, GAME_ENDED and PHASE_CHANGED message
\* is followed by a GAME_STATE to every member of the roster, and so is the
\* start of a step that passed a skill to the engine or advanced the phase:
\* the GAME_STATE broadcast comes after the messages of the mutation.
C25_StateFollowsMutation ==
    LET ms == sent.msgs
        StateAfter(i) ==
            \A q \in rooms[sent.arg].Players :
               \E j \in DOMAIN ms : j > i /\ ms[j].type = "GAME_STATE" /\ ms[j].to = q
    IN  /\ \A i \in DOMAIN ms :
              ms[i].type \in {"GAME_EVENT", "GAME_ENDED", "PHASE_CHANGED"} => StateAfter(i)
        /\ sent.req = "PERFORM_ACTION" /\ sent.in.submitted => StateAfter(0)
        /\ sent.req = "END_PHASE" /\ sent.in.phase # "" => StateAfter(0)

\* A phase advance without engine event in a room of two: PHASE_CHANGED,
\* then the GAME_STATE to both.
C25_Witness ==
    /\ sent.req = "END_PHASE"
    /\ sent.in.phase # ""
    /\ Cardinality(rooms[sent.arg].Players) = 2
    /\ \A i \in DOMAIN sent.msgs : sent.msgs[i].type \notin {"GAME_EVENT", "GAME_ENDED"}
    /\ \E i, j, k \in DOMAIN sent.msgs :
          /\ i < j /\ j < k
          /\ sent.msgs[i].type = "PHASE_CHANGED"
          /\ sent.msgs[j].type = "GAME_STATE"
          /\ sent.msgs[k].type = "GAME_STATE"

\* ------------------------------------------------------------------ C26
\* C26: two GAME_STATE payloads built from the same engine snapshot and the
\* same roster are equal: phase, players sequence, alivePlayers sequence and
\* isEnded.
C26_SameSnapshotSamePayload ==
    Len(snap.payloads) = 2 => snap.payloads[1] = snap.payloads[2]

\* ------------------------------------------------------------------ C27
\* C27: a room has an engine handle only if its state is Playing or
\* Finished; a Waiting room has none, also after a Start that failed.
C27_EngineOnlyOnceStarted ==
    \A r \in 1..Len(rooms) :
       rooms[r].Engine # NoEngine => rooms[r].State \in {"PLAYING", "FINISHED"}

\* ------------------------------------------------------------------ C28
\* C28: when no handler is in flight and no engine start has failed, no
\* room that has members is Waiting with a full roster whose members are all
\* ready.
C28_NoStartableRoomAtRest ==
    (/\ \A c \in Conns : conn[c].pc \in {"idle", "closed"}
     /\ \A r \in 1..Len(rooms) : rooms[r].Engine # NoEngine => rooms[r].EngineStarted)
    => \A r \in 1..Len(rooms) :
          ~(rooms[r].State = "WAITING" /\ rooms[r].Players # {} /\ CanStart(rooms[r]))

\* ------------------------------------------------------------------ C29
\* C29: the registry never loses an entry, and a CREATE_ROOM request leaves
\* every room already registered as it is: the room found under an ID keeps
\* its role list, roster, state and engine across later room creations.
C29_RoomsStayRegistered ==
    [][/\ Len(rooms') >= Len(rooms)
       /\ \A r \in 1..Len(rooms) :
             /\ rooms'[r].Roles = rooms[r].Roles
             /\ (\E c \in Conns : conn[c].pc = "idle" /\ conn'[c].pc = "createAdd")
                => rooms'[r] = rooms[r]]_vars

\* ------------------------------------------------------------------ C30
\* C30: a statement that reads the roster, state or engine handle of a room
\* runs while its goroutine holds the room's mutex shared or exclusive, one
\* that writes them while it holds the mutex exclusive.
C30_AccessUnderLock ==
    lk.acc # NoAccess =>
       \/ lk.w = lk.acc.by
       \/ lk.acc.kind = "read" /\ lk.acc.by \in lk.r

\* ------------------------------------------------------------------ C31
\* C31: a READY request of a player whose room is Playing or Finished changes
\* no ready flag and sends no PLAYER_READY.
C31_ReadyOnlyWhileWaiting ==
    [][\A c \in Conns :
          (/\ sent'.req = "READY" /\ sent'.conn = c
           /\ conn[c].pc = "idle"
           /\ conn[c].tempPlayerID \in registry
           /\ players[conn[c].tempPlayerID].RoomID \in 1..Len(rooms)
           /\ rooms[players[conn[c].tempPlayerID].RoomID].State # "WAITING")
          => /\ \A p \in DOMAIN players : players'[p].IsReady = players[p].IsReady
             /\ \A i \in DOMAIN sent'.msgs : sent'.msgs[i].type # "PLAYER_READY"]_vars

\* ------------------------------------------------------------------ C32
\* The place of a message kind in the sequence handleEndPhase sends.
C32_Rank(type) ==
    CASE type = "PHASE_CHANGED" -> 1
      [] type = "ROLE_INFO" -> 2
      [] type = "ALLOWED_SKILLS" -> 3
      [] type = "GAME_STATE" -> 4
      [] OTHER -> 0

\* C32: a phase advance the engine accepted sends, after the broadcasts of
\* the engine's event, PHASE_CHANGED with the new phase to every roster
\* member, then the private phase-entry notifications, then ALLOWED_SKILLS
\* once to each roster member the engine reports alive and to nobody else,
\* then GAME_STATE to every roster member; an END_PHASE request that ends in
\* an error sends none of these messages.
C32_EndPhaseOrder ==
    sent.req = "END_PHASE" =>
       LET ms == sent.msgs
           Of(type) == {i \in DOMAIN ms : ms[i].type = type}
       IN  IF sent.in.phase = ""
           THEN \A i \in DOMAIN ms : ms[i].type = "ERROR"
           ELSE LET roster == rooms[sent.arg].Players
                    first == CHOOSE i \in Of("PHASE_CHANGED") :
                                \A j \in Of("PHASE_CHANGED") : i <= j
                IN  /\ roster # {} => Of("PHASE_CHANGED") # {}
                    /\ \A q \in roster :
                          Cardinality({i \in Of("PHASE_CHANGED") : ms[i].to = q}) = 1
                    /\ \A i \in Of("PHASE_CHANGED") : ms[i].text = sent.in.phase
                    /\ \A i, j \in DOMAIN ms :
                          first <= i /\ i < j => /\ C32_Rank(ms[i].type) >= 1
                                                 /\ C32_Rank(ms[i].type) <= C32_Rank(ms[j].type)
                    /\ \A i \in DOMAIN ms :
                          i < first => ms[i].type \in {"GAME_EVENT", "GAME_ENDED", "GAME_STATE"}
                    /\ {ms[i].to : i \in Of("ALLOWED_SKILLS")} = sent.in.alive \cap roster
                    /\ \A q \in roster :
                          Cardinality({i \in Of("ALLOWED_SKILLS") : ms[i].to = q}) <= 1
                    /\ \A q \in roster :
                          \E i \in Of("GAME_STATE") : i > first /\ ms[i].to = q

\* The witch's night is entered in a room of two whose witch is dead:
\* PHASE_CHANGED to both, ALLOWED_SKILLS to the werewolf only, GAME_STATE to
\* both.
C32_Witness ==
    /\ sent.req = "END_PHASE"
    /\ sent.in.phase = "NIGHT_WITCH"
    /\ Cardinality(rooms[sent.arg].Players) = 2
    /\ \E q \in rooms[sent.arg].Players : q \notin sent.in.alive
    /\ Cardinality({i \in DOMAIN sent.msgs : sent.msgs[i].type = "ALLOWED_SKILLS"}) = 1
    /\ Cardinality({i \in DOMAIN sent.msgs : sent.msgs[i].type = "PHASE_CHANGED"}) = 2

\* ------------------------------------------------------------------ C33
\* C33: handleReady goes on to Room.Start exactly when the roster of the
\* room has as many members as the room has role slots and every member's
\* ready flag is set, whatever the state of the room.
C33_CanStartExactly ==
    [][\A c \in Conns :
          conn[c].pc = "readyCanStart" /\ conn'[c].pc # "readyCanStart"
          => LET room == rooms[conn[c].room] IN
             (conn'[c].pc = "readyStart")
                <=> (/\ Cardinality(room.Players) = Len(room.Roles)
                     /\ \A p \in room.Players : players[p].IsReady)]_vars

\* CanStart has answered true for a room that is already Playing.
C33_Witness ==
    \E c \in Conns :
       /\ conn[c].pc = "readyStart"
       /\ rooms[conn[c].room].State = "PLAYING"
       /\ Cardinality(rooms[conn[c].room].Players) = 2

\* ------------------------------------------------------------------ C34
\* C34: one envelope instance is serialized at most once however many times
\* Body, Length and Encode are called on it, and every call yields the same
\* bytes: each Body is the envelope's JSON text, each Length its length and
\* each Encode that text behind its length prefix.
C34_SerializedOnce ==
    /\ wire.marshals <= 1
    /\ wire.out # <<>> => wire.marshals = 1
    /\ \A i, j \in DOMAIN wire.out :
          wire.out[i].call = wire.out[j].call => wire.out[i].val = wire.out[j].val
    /\ \A i \in DOMAIN wire.out :
          LET o == wire.out[i] IN
          /\ o.call = "Body" => o.val = Marshal(wire.msg)
          /\ o.call = "Length" => o.val = Len(Marshal(wire.msg))
          /\ o.call = "Encode" => o.val = Encode(wire.msg)

\* One envelope has been encoded for two recipients and its Body read.
C34_Witness ==
    /\ Len(wire.out) = 3
    /\ Cardinality({i \in DOMAIN wire.out : wire.out[i].call = "Encode"}) = 2
    /\ wire.out[3].call = "Body"

\* ------------------------------------------------------------------ C35
\* C35: in the step that takes a room to Playing the engine holds one role
\* for each roster member and for no one else, every role occurs among the
\* members as often as among the room's role slots, and the camp told to a
\* member is evil exactly when the member's role is werewolf.
C35_RolesOneToOne ==
    [][\A r \in 1..Len(rooms) :
          (rooms[r].State = "WAITING" /\ rooms'[r].State = "PLAYING")
          => LET room == rooms'[r] IN
             /\ DOMAIN room.Assigned = room.Players
             /\ \A role \in {room.Roles[i] : i \in 1..Len(room.Roles)} :
                   Cardinality({p \in room.Players : room.Assigned[p] = role})
                      = Cardinality({i \in 1..Len(room.Roles) : room.Roles[i] = role})
             /\ \A p \in room.Players :
                   room.Assigned[p] \in {room.Roles[i] : i \in 1..Len(room.Roles)}
             /\ \A i \in 1..Len(sent'.msgs) :
                   sent'.msgs[i].type = "GAME_STARTED"
                   => /\ sent'.msgs[i].role = room.Assigned[sent'.msgs[i].to]
                      /\ (sent'.msgs[i].camp = "EVIL") <=> (sent'.msgs[i].role = "werewolf")]_vars

\* A room of a werewolf slot and a witch slot has started: one member holds
\* each role, the werewolf was told the evil camp and the witch the good one.
C35_Witness ==
    /\ sent.req = "READY"
    /\ sent.arg \in 1..Len(rooms)
    /\ rooms[sent.arg].State = "PLAYING"
    /\ rooms[sent.arg].Roles = <<"werewolf", "witch">>
    /\ \E p, q \in rooms[sent.arg].Players :
          /\ rooms[sent.arg].Assigned[p] = "werewolf"
          /\ rooms[sent.arg].Assigned[q] = "witch"
    /\ \E i, j \in 1..Len(sent.msgs) :
          /\ sent.msgs[i].type = "GAME_STARTED" /\ sent.msgs[i].camp = "EVIL"
          /\ sent.msgs[j].type = "GAME_STARTED" /\ sent.msgs[j].camp = "GOOD"

\* ------------------------------------------------------------------ C36
\* C36: when a CREATE_ROOM request has been answered with an error of the
\* handler (a validation error or the error of room.AddPlayer), the room the
\* request made, if it made one, is not in the registry: no room exists that
\* did not exist before the request.
C36_FailedCreateLeavesNoRoom ==
    (/\ sent.req = "CREATE_ROOM"
     /\ \E i \in 1..Len(sent.msgs) :
           sent.msgs[i].type = "ERROR" /\ sent.msgs[i].text # "write error")
    => sent.arg \notin 1..Len(rooms)

C38_StartReturns ==
    /\ [](\A c \in Conns :
            (lk.run[c] \in StartPaths /\ MuRunning(c) /\ lk.w["r"] = c)
            => AtMuOp(c).op \notin {"Lock", "RLock"})
    /\ \A c \in Conns :
          (lk.run[c] \in StartPaths /\ lk.w["r"] = c) ~> (lk.w["r"] # c)

\* ------------------------------------------------------------------ C39
\* C39: a PERFORM_ACTION request is handed to Engine.SubmitSkillUse and an
\* END_PHASE request to Engine.EndPhase only when the requester's room is
\* Playing as the request arrives; in a Waiting room either request is
\* answered with "game not started".
C39_EngineOnlyWhilePlaying ==
    [][(sent'.req \in {"PERFORM_ACTION", "END_PHASE"} /\ sent'.arg \in 1..Len(rooms))
       => LET state == rooms[sent'.arg].State
              Error(text) == \E i \in 1..Len(sent'.msgs) :
                                sent'.msgs[i].type = "ERROR" /\ sent'.msgs[i].text = text
              forwarded == \/ sent'.req = "PERFORM_ACTION" /\ sent'.in.submitted
                           \/ sent'.req = "END_PHASE"
                              /\ (sent'.in.phase # "" \/ Error("end phase"))
          IN  /\ forwarded => state = "PLAYING"
              /\ state = "WAITING" => Error("game not started")]_vars
====
